---- MODULE Spec2Model ----
(***************************************************************************)
(* Blackijecky: the blackjack round engine (game_engine/), the per-client  *)
(* game session (session/game_session.py) and the server and client sides  *)
(* of the payload exchange (session/server_session.py,                     *)
(* session/client_session.py) over a reliable in-order byte stream.        *)
(*                                                                         *)
(* Two specifications share the variables:                                 *)
(*   EngineSpec  a Round object driven through its public methods;         *)
(*   Spec        one TCP session: run_server_session against               *)
(*               run_client_session.                                       *)
(***************************************************************************)
EXTENDS Integers, Sequences, FiniteSets, TLC

VARIABLES
    rnd,            \* server: the current Round object (game_engine/Round.py)
    session,        \* server: the GameSession object
    spc,            \* server: position of run_server_session
    round_index,    \* server: rounds started so far (round_index + 1 of the for loop)
    sent_player,    \* server: run_server_session local
    sent_dealer,    \* server: run_server_session local
    rounds,         \* the rounds value of the Request, used by both sides
    s2c,            \* ServerPayload messages sent and not yet received
    c2s,            \* Decision messages sent and not yet received
    cpc,            \* client: position of run_client_session
    r,              \* client: loop variable r of run_client_session
    i,              \* client: loop variable i of the initial three receives
    player_ranks,   \* client: run_client_session local
    dealer_ranks,   \* client: run_client_session local
    wins,           \* client: run_client_session local
    played,         \* client: run_client_session local
    srvLog,         \* history: what the server sent and read in its current round
    cliLog,         \* history: what the client received and sent in its current round
    calls,          \* EngineSpec: number of method calls made on the Round
    msg,            \* CodecSpec: the arguments of the pack call
    pkt,            \* CodecSpec: the bytes object packed or received
    call,           \* CodecSpec: the latest function called
    ret,            \* CodecSpec: what that call returned or raised
    inbuf,          \* ConnSpec: bytes the peer sent and the server has not received
    rbuf,           \* ConnSpec: the chunks recv_exact has received so far, joined
    peer,           \* ConnSpec: what the peer has done: connected, sent, closed
    err,            \* ConnSpec: the exception handle_client caught
    conns,          \* ServerSpec: the handle_client threads, by order of accept
    mainpc,         \* ServerSpec: where server_main.main is
    stop_event,     \* ServerSpec: main's threading.Event
    offers,         \* ServerSpec: number of offers broadcast_offers has sent
    want,           \* RecvSpec: the argument n of recv_exact
    asked,          \* RecvSpec: the arguments of its sock.recv calls, in order
    printed,        \* ClientSpec: the lines printed, oldest first
    csock,          \* ClientSpec: the TCP socket of connect_and_send_request
    lpc             \* ClientSpec: where client_main.main is

vars == <<rnd, session, spc, round_index, sent_player, sent_dealer, rounds,
          s2c, c2s, cpc, r, i, player_ranks, dealer_ranks, wins, played,
          srvLog, cliLog, calls, msg, pkt, call, ret,
          inbuf, rbuf, peer, err,
          conns, mainpc, stop_event, offers, want, asked, printed, csock, lpc>>

codecVars == <<msg, pkt, call, ret>>

connVars == <<inbuf, rbuf, peer, err>>

mainVars == <<conns, mainpc, stop_event, offers>>

recvVars == <<want, asked>>

cmVars == <<printed, csock, lpc>>

netVars == <<mainVars, recvVars, cmVars>>

sessionVars == <<session, spc, round_index, sent_player, sent_dealer, rounds,
                 s2c, c2s, cpc, r, i, player_ranks, dealer_ranks, wins, played,
                 srvLog, cliLog>>

(***************************************************************************)
(* Bounds                                                                  *)
(***************************************************************************)
\* random.shuffle brings the four cards of ShuffleCards to the top of the
\* deck in any order and leaves the other cards below them in construction
\* order, cut at one of NumCuts places
NumCuts == 1
\* largest rounds value of a Request
MaxRounds == 2
\* EngineSpec: largest number of method calls made on one Round after start()
MaxCalls == 3
\* CodecSpec: largest number of characters of the short names
MaxNameChars == 1
\* ConnSpec: number of bytes of a short sock.recv
ShortRead == 4

\* ServerSpec: number of connections accepted
MaxConns == 2
\* ServerSpec: number of offers broadcast
MaxOffers == 2

\* RecvSpec: largest n of a recv_exact call
MaxWant == 3
\* RecvSpec: number of bytes the peer sends in all
MaxStream == 4

\* ClientSpec: number of datagrams received
MaxDatagrams == 3

\* HandSpec: largest number of cards added to the Hand
MaxHandLen == 3

(***************************************************************************)
(* common/protocol.py constants                                            *)
(***************************************************************************)
RESULT_NOT_OVER == 0
RESULT_TIE == 1
RESULT_LOSS == 2
RESULT_WIN == 3
DECISION_HIT == "Hittt"
DECISION_STAND == "Stand"

(***************************************************************************)
(* common/protocol.py: the wire format.  bytes objects are sequences of     *)
(* numbers 0..255; a str holding a name is the sequence of its code points; *)
(* a str holding a decision is one of the strings of Literals.             *)
(***************************************************************************)
\* MAGIC_COOKIE = 0xABCDDCBA as its two 16-bit halves <<0xABCD, 0xDCBA>>
MAGIC_COOKIE == <<43981, 56506>>

TYPE_OFFER == 2
TYPE_REQUEST == 3
TYPE_PAYLOAD == 4
NAME_LEN == 32
DECISION_LEN == 5
OFFER_LEN == 4 + 1 + 2 + NAME_LEN
REQUEST_LEN == 4 + 1 + 1 + NAME_LEN
PAYLOAD_CLIENT_LEN == 4 + 1 + DECISION_LEN
PAYLOAD_SERVER_LEN == 4 + 1 + 1 + 3

Min(a, b) == IF a < b THEN a ELSE b

RECURSIVE Pow256(_)
Pow256(n) == IF n = 0 THEN 1 ELSE 256 * Pow256(n - 1)

\* variant: the least significant byte first
BigEndian_Little(v, n) == [k \in 1..n |-> (v \div Pow256(k - 1)) % 256]

\* struct.pack("!H", v) for n = 2, struct.pack("!B", v) for n = 1
BigEndian(v, n) == [k \in 1..n |-> (v \div Pow256(n - k)) % 256]

\* struct.unpack of a big-endian unsigned field
RECURSIVE FromBigEndian(_)
FromBigEndian(b) ==
    IF b = <<>> THEN 0
    ELSE 256 * FromBigEndian(SubSeq(b, 1, Len(b) - 1)) + b[Len(b)]

\* struct.pack("!I", v) and struct.unpack("!I", b) of a 32-bit value
PackU32(v) == BigEndian(v[1], 2) \o BigEndian(v[2], 2)

UnpackU32(b) == <<FromBigEndian(SubSeq(b, 1, 2)), FromBigEndian(SubSeq(b, 3, 4))>>

\* str.encode("utf-8") of code points below 0x800
RECURSIVE utf8_encode(_)
utf8_encode(s) ==
    IF s = <<>> THEN <<>>
    ELSE (IF Head(s) < 128 THEN <<Head(s)>>
          ELSE <<192 + (Head(s) \div 64), 128 + (Head(s) % 64)>>)
         \o utf8_encode(Tail(s))

\* bytes.decode("utf-8", errors="replace") of one- and two-byte sequences;
\* any other byte is replaced by U+FFFD
RECURSIVE utf8_decode(_)
utf8_decode(b) ==
    IF b = <<>> THEN <<>>
    ELSE IF b[1] < 128 THEN <<b[1]>> \o utf8_decode(Tail(b))
    ELSE IF b[1] \in 194..223 /\ Len(b) >= 2 /\ b[2] \in 128..191
    THEN <<(b[1] - 192) * 64 + (b[2] - 128)>> \o utf8_decode(SubSeq(b, 3, Len(b)))
    ELSE <<65533>> \o utf8_decode(Tail(b))

\* _encode_fixed_str
encode_fixed_str(s, length) ==
    LET raw == SubSeq(utf8_encode(s), 1, Min(length, Len(utf8_encode(s))))
    IN  raw \o [k \in 1..(length - Len(raw)) |-> 0]

\* b.split(b"\x00", 1)[0]
RECURSIVE UpToNul(_)
UpToNul(b) ==
    IF b = <<>> \/ b[1] = 0 THEN <<>> ELSE <<b[1]>> \o UpToNul(Tail(b))

\* variant: the padding is not stripped
decode_fixed_str_Unstripped(b) == utf8_decode(b)

\* _decode_fixed_str
decode_fixed_str(b) == utf8_decode(UpToNul(b))

\* the decision strings considered
Literals == {"Hittt", "Stand", "hit", "stand", "Hello"}

\* the code points of a decision string
Chars(s) ==
    CASE s = "Hittt" -> <<72, 105, 116, 116, 116>>
      [] s = "Stand" -> <<83, 116, 97, 110, 100>>
      [] s = "hit" -> <<104, 105, 116>>
      [] s = "stand" -> <<115, 116, 97, 110, 100>>
      [] s = "Hello" -> <<72, 101, 108, 108, 111>>

\* decision_bytes.decode("ascii") of bytes below 128; a string outside
\* Literals is "other"
ascii_decode(b) ==
    IF \E s \in Literals : Chars(s) = b
    THEN CHOOSE s \in Literals : Chars(s) = b
    ELSE "other"

\* a validator returns "" or the reason of the ProtocolError it raises
\* variant: the type tag is checked before the cookie
validate_cookie_and_type_TypeFirst(cookie, msg_type, expected_type) ==
    IF msg_type # expected_type THEN "type"
    ELSE IF cookie # MAGIC_COOKIE THEN "cookie"
    ELSE ""

\* _validate_cookie_and_type
validate_cookie_and_type(cookie, msg_type, expected_type) ==
    IF cookie # MAGIC_COOKIE THEN "cookie"
    ELSE IF msg_type # expected_type THEN "type"
    ELSE ""

\* _validate_port
validate_port(port) == IF ~(0 <= port /\ port <= 65535) THEN "port" ELSE ""

\* _validate_rounds
validate_rounds(n) == IF ~(0 <= n /\ n <= 255) THEN "rounds" ELSE ""

\* variant: rank 0 accepted as "no card"
validate_rank_suit_AllowZero(rank, suit) ==
    IF ~(0 <= rank /\ rank <= 13) THEN "rank"
    ELSE IF ~(0 <= suit /\ suit <= 3) THEN "suit"
    ELSE ""

\* _validate_rank_suit
validate_rank_suit(rank, suit) ==
    IF ~(1 <= rank /\ rank <= 13) THEN "rank"
    ELSE IF ~(0 <= suit /\ suit <= 3) THEN "suit"
    ELSE ""

\* the outcome of a call: the value returned, or the ProtocolError raised
\* with its reason; read tells whether struct.unpack was executed
NoValue == [none |-> TRUE]

Returned(value, read) ==
    [raised |-> "", why |-> "", returned |-> TRUE, value |-> value, read |-> read]

Raised(why, read) ==
    [raised |-> "ProtocolError", why |-> why, returned |-> FALSE,
     value |-> NoValue, read |-> read]

\* the dataclasses Offer, Request, ServerPayload
Offer(tcp_port, server_name) == [tcp_port |-> tcp_port, server_name |-> server_name]

Request(n, team_name) == [rounds |-> n, team_name |-> team_name]

ServerPayload(result, rank, suit) == [result |-> result, rank |-> rank, suit |-> suit]

\* pack_offer
pack_offer(tcp_port, server_name) ==
    IF validate_port(tcp_port) # "" THEN Raised(validate_port(tcp_port), FALSE)
    ELSE Returned(PackU32(MAGIC_COOKIE) \o BigEndian(TYPE_OFFER, 1)
                      \o BigEndian(tcp_port, 2)
                      \o encode_fixed_str(server_name, NAME_LEN), FALSE)

\* variant: the type tag of the datagram is not looked at
unpack_offer_AnyType(data) ==
    IF Len(data) # OFFER_LEN THEN Raised("length", FALSE)
    ELSE IF UnpackU32(SubSeq(data, 1, 4)) # MAGIC_COOKIE THEN Raised("cookie", TRUE)
    ELSE Returned(Offer(FromBigEndian(SubSeq(data, 6, 7)),
                        decode_fixed_str(SubSeq(data, 8, 39))), TRUE)

\* unpack_offer
unpack_offer(data) ==
    IF Len(data) # OFFER_LEN THEN Raised("length", FALSE)
    ELSE LET cookie == UnpackU32(SubSeq(data, 1, 4))
             msg_type == data[5]
             tcp_port == FromBigEndian(SubSeq(data, 6, 7))
             name_bytes == SubSeq(data, 8, 39)
             header == validate_cookie_and_type(cookie, msg_type, TYPE_OFFER)
         IN  IF header # "" THEN Raised(header, TRUE)
             ELSE IF validate_port(tcp_port) # "" THEN Raised("port", TRUE)
             ELSE Returned(Offer(tcp_port, decode_fixed_str(name_bytes)), TRUE)

\* pack_request
pack_request(n, team_name) ==
    IF validate_rounds(n) # "" THEN Raised(validate_rounds(n), FALSE)
    ELSE Returned(PackU32(MAGIC_COOKIE) \o BigEndian(TYPE_REQUEST, 1)
                      \o BigEndian(n, 1)
                      \o encode_fixed_str(team_name, NAME_LEN), FALSE)

\* variant: the cookie and the type tag are not validated
unpack_request_Unvalidated(data) ==
    IF Len(data) # REQUEST_LEN THEN Raised("length", FALSE)
    ELSE Returned(Request(data[6], decode_fixed_str(SubSeq(data, 7, 38))), TRUE)

\* unpack_request
unpack_request(data) ==
    IF Len(data) # REQUEST_LEN THEN Raised("length", FALSE)
    ELSE LET cookie == UnpackU32(SubSeq(data, 1, 4))
             msg_type == data[5]
             n == data[6]
             name_bytes == SubSeq(data, 7, 38)
             header == validate_cookie_and_type(cookie, msg_type, TYPE_REQUEST)
         IN  IF header # "" THEN Raised(header, TRUE)
             ELSE IF validate_rounds(n) # "" THEN Raised("rounds", TRUE)
             ELSE Returned(Request(n, decode_fixed_str(name_bytes)), TRUE)

\* variant: any string of five characters is packed
pack_payload_decision_AnyFive(decision) ==
    IF Len(Chars(decision)) # DECISION_LEN THEN Raised("decision", FALSE)
    ELSE Returned(PackU32(MAGIC_COOKIE) \o BigEndian(TYPE_PAYLOAD, 1)
                      \o Chars(decision), FALSE)

\* pack_payload_decision
pack_payload_decision(decision) ==
    IF decision \notin {DECISION_HIT, DECISION_STAND} THEN Raised("decision", FALSE)
    ELSE IF Len(Chars(decision)) # DECISION_LEN THEN Raised("decision", FALSE)
    ELSE Returned(PackU32(MAGIC_COOKIE) \o BigEndian(TYPE_PAYLOAD, 1)
                      \o Chars(decision), FALSE)

\* variant: the decoded string is returned without the membership test
unpack_payload_decision_Unchecked(data) ==
    IF Len(data) # PAYLOAD_CLIENT_LEN THEN Raised("length", FALSE)
    ELSE LET cookie == UnpackU32(SubSeq(data, 1, 4))
             header == validate_cookie_and_type(cookie, data[5], TYPE_PAYLOAD)
         IN  IF header # "" THEN Raised(header, TRUE)
             ELSE IF \E k \in 6..10 : data[k] >= 128 THEN Raised("ascii", TRUE)
             ELSE Returned(ascii_decode(SubSeq(data, 6, 10)), TRUE)

\* unpack_payload_decision
unpack_payload_decision(data) ==
    IF Len(data) # PAYLOAD_CLIENT_LEN THEN Raised("length", FALSE)
    ELSE LET cookie == UnpackU32(SubSeq(data, 1, 4))
             msg_type == data[5]
             decision_bytes == SubSeq(data, 6, 10)
             header == validate_cookie_and_type(cookie, msg_type, TYPE_PAYLOAD)
         IN  IF header # "" THEN Raised(header, TRUE)
             ELSE IF \E k \in 1..5 : decision_bytes[k] >= 128 THEN Raised("ascii", TRUE)
             ELSE IF ascii_decode(decision_bytes) \notin {DECISION_HIT, DECISION_STAND}
             THEN Raised("decision", TRUE)
             ELSE Returned(ascii_decode(decision_bytes), TRUE)

\* pack_payload_server
pack_payload_server(result, rank, suit) ==
    IF ~(0 <= result /\ result <= 255) THEN Raised("result", FALSE)
    ELSE IF validate_rank_suit(rank, suit) # ""
    THEN Raised(validate_rank_suit(rank, suit), FALSE)
    ELSE LET card_bytes == BigEndian(rank, 2) \o BigEndian(suit, 1)
         IN  Returned(PackU32(MAGIC_COOKIE) \o BigEndian(TYPE_PAYLOAD, 1)
                          \o BigEndian(result, 1) \o card_bytes, FALSE)

\* unpack_payload_server
unpack_payload_server(data) ==
    IF Len(data) # PAYLOAD_SERVER_LEN THEN Raised("length", FALSE)
    ELSE LET cookie == UnpackU32(SubSeq(data, 1, 4))
             msg_type == data[5]
             result == data[6]
             card_bytes == SubSeq(data, 7, 9)
             header == validate_cookie_and_type(cookie, msg_type, TYPE_PAYLOAD)
             rank == FromBigEndian(SubSeq(card_bytes, 1, 2))
             suit == card_bytes[3]
         IN  IF header # "" THEN Raised(header, TRUE)
             ELSE IF validate_rank_suit(rank, suit) # ""
             THEN Raised(validate_rank_suit(rank, suit), TRUE)
             ELSE Returned(ServerPayload(result, rank, suit), TRUE)

\* no call made yet
NoReturn ==
    [raised |-> "", why |-> "", returned |-> FALSE, value |-> NoValue, read |-> FALSE]

NoMsg == [kind |-> "none"]

\* the codec variables where no codec call is made
CodecIdle ==
    /\ msg = NoMsg
    /\ pkt = <<>>
    /\ call = "none"
    /\ ret = NoReturn

\* no exception caught
NoError == [at |-> "", raised |-> "", why |-> ""]

\* the connection variables where no connection is handled
ConnIdle ==
    /\ inbuf = <<>>
    /\ rbuf = <<>>
    /\ peer = "connected"
    /\ err = NoError

\* no socket object created
NoSocket == [state |-> "none", addr |-> <<>>, sent |-> <<>>]

\* the variables of ServerSpec, RecvSpec and ClientSpec where these programs
\* do not run
NetIdle ==
    /\ conns = <<>>
    /\ mainpc = "none"
    /\ stop_event = FALSE
    /\ offers = 0
    /\ want = 0
    /\ asked = <<>>
    /\ printed = <<>>
    /\ csock = NoSocket
    /\ lpc = "none"

(***************************************************************************)
(* game_engine/Card.py, game_engine/Deck.py                                *)
(***************************************************************************)
\* a Card object is the number 13 * suit + (rank - 1); Rank and Suit are its
\* attributes rank (1..13) and suit (0..3)
Card(rank, suit) == 13 * suit + (rank - 1)

Rank(card) == (card % 13) + 1

Suit(card) == card \div 13

\* Card.get_value
get_value(card) ==
    IF Rank(card) > 10 THEN 10
    ELSE IF Rank(card) = 1 THEN 11
    ELSE Rank(card)

\* Deck.__init__: suit-major, rank 1..13 within each suit
Deck_init == [k \in 1..52 |-> Card(((k - 1) % 13) + 1, (k - 1) \div 13)]

Range(s) == {s[k] : k \in DOMAIN s}

Reverse(s) == [k \in 1..Len(s) |-> s[Len(s) + 1 - k]]

\* Round.start draws four cards: two rounds of (player, dealer)
DealLen == 4

\* the cards random.shuffle brings to the top: A♠ 5♥ 6♦ K♥
ShuffleCards == {Card(1, 0), Card(5, 1), Card(6, 2), Card(13, 1)}

\* the orders in which the first DealLen cards can be drawn after a shuffle
TopSeqs ==
    {t \in [1..DealLen -> ShuffleCards] : \A a, b \in 1..DealLen : a # b => t[a] # t[b]}

\* the outcomes of random.shuffle considered: the cards drawn first and the
\* place where the rest of the deck is cut
Shuffles == [top : TopSeqs, cut : 0..(NumCuts - 1)]

\* the top m cards of pile moved to its bottom (the end of the list is the top)
Cut(pile, m) ==
    SubSeq(pile, Len(pile) - m + 1, Len(pile)) \o SubSeq(pile, 1, Len(pile) - m)

\* Deck.shuffle: a permutation of the deck; the end of the list is the top,
\* so the cards of sh.top are drawn first, sh.top[1] first
shuffle(deck, sh) ==
    Cut(SelectSeq(deck, LAMBDA c : c \notin Range(sh.top)), 9 * sh.cut)
        \o Reverse(sh.top)

(***************************************************************************)
(* game_engine/Hand.py                                                     *)
(***************************************************************************)
RECURSIVE SumValues(_)
SumValues(hand) ==
    IF hand = <<>> THEN 0 ELSE get_value(Head(hand)) + SumValues(Tail(hand))

RECURSIVE CountAces(_)
CountAces(hand) ==
    IF hand = <<>> THEN 0
    ELSE (IF Rank(Head(hand)) = 1 THEN 1 ELSE 0) + CountAces(Tail(hand))

\* the while loop of Hand.hand_sum
RECURSIVE Downgrade(_, _)
Downgrade(total, aces) ==
    IF total > 21 /\ aces > 0 THEN Downgrade(total - 10, aces - 1) ELSE total

\* variant: one Ace at most is converted from 11 to 1
hand_sum_OneAce(hand) ==
    IF SumValues(hand) > 21 /\ CountAces(hand) > 0
    THEN SumValues(hand) - 10
    ELSE SumValues(hand)

\* Hand.hand_sum
hand_sum(hand) == Downgrade(SumValues(hand), CountAces(hand))

\* Hand.is_bust
is_bust(hand) == hand_sum(hand) > 21

(***************************************************************************)
(* game_engine/Round.py                                                    *)
(* A Round is a record.  Two history fields describe the latest method     *)
(* call: entry is the state at its entry, writes lists the values it       *)
(* assigned to state, in order.                                            *)
(***************************************************************************)
Outcomes == {"WIN", "LOSS", "TIE", "BLACKJACK"}

\* Round.__init__
Round_init ==
    [deck |-> Deck_init, player_hand |-> <<>>, dealer_hand |-> <<>>,
     state |-> "None", dealer_hidden |-> TRUE, outcome |-> "None",
     entry |-> "None", writes |-> <<>>]

\* self.state = s
SetState(rd, s) == [rd EXCEPT !.state = s, !.writes = Append(@, s)]

\* variant: the card drawn for the player stays on the deck
DrawPlayer_NoPop(rd) ==
    [rd EXCEPT !.player_hand = Append(@, rd.deck[Len(rd.deck)])]

\* self.player_hand.add_card(self.deck.draw())
DrawPlayer(rd) ==
    [rd EXCEPT !.player_hand = Append(@, rd.deck[Len(rd.deck)]),
               !.deck = SubSeq(@, 1, Len(rd.deck) - 1)]

\* self.dealer_hand.add_card(self.deck.draw())
DrawDealer(rd) ==
    [rd EXCEPT !.dealer_hand = Append(@, rd.deck[Len(rd.deck)]),
               !.deck = SubSeq(@, 1, Len(rd.deck) - 1)]

\* variant: both cards of the player are dealt before the dealer's
start_PlayerBothFirst(rd, sh) ==
    LET shuffled == [rd EXCEPT !.deck = shuffle(rd.deck, sh)]
        dealt == DrawDealer(DrawDealer(DrawPlayer(DrawPlayer(shuffled))))
        checked == IF hand_sum(dealt.player_hand) = 21
                   THEN SetState([dealt EXCEPT !.outcome = "BLACKJACK"], "ROUND_OVER")
                   ELSE dealt
    IN  SetState(checked, "PLAYER_TURN")

\* Round.start, random.shuffle having the outcome sh
start(rd, sh) ==
    LET shuffled == [rd EXCEPT !.deck = shuffle(rd.deck, sh)]
        dealt == DrawDealer(DrawPlayer(DrawDealer(DrawPlayer(shuffled))))
        checked == IF hand_sum(dealt.player_hand) = 21
                   THEN SetState([dealt EXCEPT !.outcome = "BLACKJACK"], "ROUND_OVER")
                   ELSE dealt
    IN  SetState(checked, "PLAYER_TURN")

\* Round.need_player_decision
need_player_decision(rd) ==
    rd.state = "PLAYER_TURN" /\ ~is_bust(rd.player_hand)

\* variant: equal sums count for the dealer
game_decision_DealerWinsTies(rd) ==
    IF hand_sum(rd.player_hand) > hand_sum(rd.dealer_hand)
    THEN SetState([rd EXCEPT !.outcome = "WIN"], "ROUND_OVER")
    ELSE SetState([rd EXCEPT !.outcome = "LOSS"], "ROUND_OVER")

\* Round.game_decision
game_decision(rd) ==
    IF hand_sum(rd.player_hand) > hand_sum(rd.dealer_hand)
    THEN SetState([rd EXCEPT !.outcome = "WIN"], "ROUND_OVER")
    ELSE IF hand_sum(rd.player_hand) < hand_sum(rd.dealer_hand)
    THEN SetState([rd EXCEPT !.outcome = "LOSS"], "ROUND_OVER")
    ELSE SetState([rd EXCEPT !.outcome = "TIE"], "ROUND_OVER")

\* the while loop of Round.play_dealer_turn
RECURSIVE DealerDrawLoop(_)
DealerDrawLoop(rd) ==
    IF hand_sum(rd.dealer_hand) < 17 THEN DealerDrawLoop(DrawDealer(rd)) ELSE rd

\* variant: the dealer draws one card at most
play_dealer_turn_OneDraw(rd) ==
    IF rd.state = "DEALER_TURN"
    THEN LET shown == [rd EXCEPT !.dealer_hidden = FALSE]
             drawn == IF hand_sum(shown.dealer_hand) < 17
                      THEN DrawDealer(shown) ELSE shown
         IN  IF is_bust(drawn.dealer_hand)
             THEN SetState([drawn EXCEPT !.outcome = "WIN"], "ROUND_OVER")
             ELSE game_decision(drawn)
    ELSE rd

\* variant: the dealer draws a card before looking at the sum (do-while)
play_dealer_turn_DrawFirst(rd) ==
    IF rd.state = "DEALER_TURN"
    THEN LET drawn == DealerDrawLoop(DrawDealer([rd EXCEPT !.dealer_hidden = FALSE]))
         IN  IF is_bust(drawn.dealer_hand)
             THEN SetState([drawn EXCEPT !.outcome = "WIN"], "ROUND_OVER")
             ELSE game_decision(drawn)
    ELSE rd

\* Round.play_dealer_turn
play_dealer_turn(rd) ==
    IF rd.state = "DEALER_TURN"
    THEN LET drawn == DealerDrawLoop([rd EXCEPT !.dealer_hidden = FALSE])
         IN  IF is_bust(drawn.dealer_hand)
             THEN SetState([drawn EXCEPT !.outcome = "WIN"], "ROUND_OVER")
             ELSE game_decision(drawn)
    ELSE rd

\* Round.apply_player_decision
apply_player_decision(rd, decision) ==
    IF decision = "HIT"
    THEN LET drawn == DrawPlayer(rd)
         IN  IF is_bust(drawn.player_hand)
             THEN SetState([drawn EXCEPT !.outcome = "LOSS"], "ROUND_OVER")
             ELSE drawn
    ELSE play_dealer_turn(SetState(rd, "DEALER_TURN"))

\* entry into a method call: the history of state assignments restarts
Enter(rd) == [rd EXCEPT !.entry = rd.state, !.writes = <<>>]

(***************************************************************************)
(* EngineSpec: a Round constructed, started once, then driven through its  *)
(* public methods in any order.                                            *)
(***************************************************************************)
\* the session variables where no session runs
SessionIdle ==
    /\ session = [num_rounds |-> 0, round_counter |-> 0, wins |-> 0, losses |-> 0, ties |-> 0]
    /\ spc = "done"
    /\ round_index = 0
    /\ sent_player = 0
    /\ sent_dealer = 0
    /\ rounds = 0
    /\ s2c = <<>>
    /\ c2s = <<>>
    /\ cpc = "done"
    /\ r = 0
    /\ i = 0
    /\ player_ranks = <<>>
    /\ dealer_ranks = <<>>
    /\ wins = 0
    /\ played = 0
    /\ srvLog = <<>>
    /\ cliLog = <<>>

EngineInit ==
    /\ rnd = Round_init
    /\ calls = 0
    /\ SessionIdle
    /\ CodecIdle
    /\ ConnIdle
    /\ NetIdle

EngStart ==
    /\ rnd.state = "None"
    /\ \E sh \in Shuffles : rnd' = start(Enter(rnd), sh)
    /\ UNCHANGED <<calls, sessionVars, codecVars, connVars, netVars>>

EngApplyPlayerDecision ==
    /\ rnd.state # "None"
    /\ calls < MaxCalls
    /\ \E decision \in {"HIT", "STAND"} :
           rnd' = apply_player_decision(Enter(rnd), decision)
    /\ calls' = calls + 1
    /\ UNCHANGED <<sessionVars, codecVars, connVars, netVars>>

EngPlayDealerTurn ==
    /\ rnd.state # "None"
    /\ calls < MaxCalls
    /\ rnd' = play_dealer_turn(Enter(rnd))
    /\ calls' = calls + 1
    /\ UNCHANGED <<sessionVars, codecVars, connVars, netVars>>

EngGameDecision ==
    /\ rnd.state # "None"
    /\ calls < MaxCalls
    /\ rnd' = game_decision(Enter(rnd))
    /\ calls' = calls + 1
    /\ UNCHANGED <<sessionVars, codecVars, connVars, netVars>>

EngineNext ==
    \/ EngStart
    \/ EngApplyPlayerDecision
    \/ EngPlayDealerTurn
    \/ EngGameDecision

EngineSpec == EngineInit /\ [][EngineNext]_vars

(***************************************************************************)
(* session/game_session.py                                                 *)
(***************************************************************************)
\* GameSession.__init__ (current_round is the variable rnd)
GameSession_init(num_rounds) ==
    [num_rounds |-> num_rounds, round_counter |-> 0,
     wins |-> 0, losses |-> 0, ties |-> 0]

\* variant: the session is over one round late
is_over_OneLate(gs) == gs.round_counter > gs.num_rounds

\* GameSession.is_over
is_over(gs) == gs.round_counter >= gs.num_rounds

\* variant: a BLACKJACK is not counted
record_outcome_BlackjackUncounted(gs, outcome) ==
    IF outcome = "WIN" THEN [gs EXCEPT !.wins = @ + 1]
    ELSE IF outcome = "LOSS" THEN [gs EXCEPT !.losses = @ + 1]
    ELSE IF outcome = "TIE" THEN [gs EXCEPT !.ties = @ + 1]
    ELSE gs

\* GameSession.record_outcome (an unknown outcome raises ValueError)
record_outcome(gs, outcome) ==
    IF outcome \in {"BLACKJACK", "WIN"} THEN [gs EXCEPT !.wins = @ + 1]
    ELSE IF outcome = "LOSS" THEN [gs EXCEPT !.losses = @ + 1]
    ELSE IF outcome = "TIE" THEN [gs EXCEPT !.ties = @ + 1]
    ELSE gs

(***************************************************************************)
(* session/server_session.py                                               *)
(***************************************************************************)
\* variant: the engine suit put on the wire untranslated
INTERNAL_TO_PROTO_SUIT_Untranslated(suit) == suit

\* _INTERNAL_TO_PROTO_SUIT
INTERNAL_TO_PROTO_SUIT(suit) ==
    CASE suit = 1 -> 0
      [] suit = 2 -> 1
      [] suit = 3 -> 2
      [] suit = 0 -> 3

\* variant: the codes of WIN and LOSS exchanged
outcome_to_result_code_Exchanged(outcome) ==
    IF outcome = "None" THEN RESULT_NOT_OVER
    ELSE IF outcome = "WIN" \/ outcome = "BLACKJACK" THEN RESULT_LOSS
    ELSE IF outcome = "LOSS" THEN RESULT_WIN
    ELSE IF outcome = "TIE" THEN RESULT_TIE
    ELSE RESULT_NOT_OVER

\* _outcome_to_result_code
outcome_to_result_code(outcome) ==
    IF outcome = "None" THEN RESULT_NOT_OVER
    ELSE IF outcome = "WIN" \/ outcome = "BLACKJACK" THEN RESULT_WIN
    ELSE IF outcome = "LOSS" THEN RESULT_LOSS
    ELSE IF outcome = "TIE" THEN RESULT_TIE
    ELSE RESULT_NOT_OVER

\* _send_card: the ServerPayload put on the wire for card with result_code
send_card(card, result_code) ==
    [result |-> result_code, rank |-> Rank(card),
     suit |-> INTERNAL_TO_PROTO_SUIT(Suit(card))]

\* variant: both player cards first, then the dealer's up-card
InitialPayloads_PlayerFirst(rd) ==
    <<send_card(rd.player_hand[1], RESULT_NOT_OVER),
      IF hand_sum(rd.player_hand) = 21
      THEN send_card(rd.player_hand[2], RESULT_WIN)
      ELSE send_card(rd.player_hand[2], RESULT_NOT_OVER),
      send_card(rd.dealer_hand[1], RESULT_NOT_OVER)>>

\* variant: the third payload is not marked on a blackjack
InitialPayloads_Unmarked(rd) ==
    <<send_card(rd.player_hand[1], RESULT_NOT_OVER),
      send_card(rd.dealer_hand[1], RESULT_NOT_OVER),
      send_card(rd.player_hand[2], RESULT_NOT_OVER)>>

\* variant: the dealer card shown at the round start is dealer_cards[1]
InitialPayloads_HoleCard(rd) ==
    <<send_card(rd.player_hand[1], RESULT_NOT_OVER),
      send_card(rd.dealer_hand[2], RESULT_NOT_OVER),
      IF hand_sum(rd.player_hand) = 21
      THEN send_card(rd.player_hand[2], RESULT_WIN)
      ELSE send_card(rd.player_hand[2], RESULT_NOT_OVER)>>

\* run_server_session, lines 166-184: the payloads of the round start
InitialPayloads(rd) ==
    <<send_card(rd.player_hand[1], RESULT_NOT_OVER),
      send_card(rd.dealer_hand[1], RESULT_NOT_OVER),
      IF hand_sum(rd.player_hand) = 21
      THEN send_card(rd.player_hand[2], RESULT_WIN)
      ELSE send_card(rd.player_hand[2], RESULT_NOT_OVER)>>

\* variant: the drawn card is always sent with NOT_OVER
HitPayloads_NotOver(rd, before_p) ==
    LET after_p == Len(rd.player_hand)
    IN  IF after_p > before_p
        THEN [k \in 1..(after_p - before_p) |->
                 send_card(rd.player_hand[before_p + k], RESULT_NOT_OVER)]
        ELSE <<>>

\* run_server_session, lines 198-206: the payloads answering a HIT, rd being
\* the round after apply_player_decision("HIT")
HitPayloads(rd, before_p) ==
    LET after_p == Len(rd.player_hand)
    IN  IF after_p > before_p
        THEN [k \in 1..(after_p - before_p) |->
                 send_card(rd.player_hand[before_p + k],
                           outcome_to_result_code(rd.outcome))]
        ELSE <<>>

\* variant: the slice starts one card late and the hidden card is skipped
StandNewCards_SkipHidden(rd, sentDealer) ==
    SubSeq(rd.dealer_hand, sentDealer + 2, Len(rd.dealer_hand))

\* handle_stand_and_send_dealer, lines 108-112
StandNewCards(rd, sentDealer) ==
    LET after_d == Len(rd.dealer_hand)
        new_cards == SubSeq(rd.dealer_hand, sentDealer + 1, after_d)
    IN  IF new_cards = <<>> /\ after_d > 0
        THEN SubSeq(rd.dealer_hand, 2, after_d)
        ELSE new_cards

\* variant: is_last compares i with len(new_cards), so no card is the last
StandPayloads_NoLast(rd, sentDealer) ==
    LET new_cards == StandNewCards(rd, sentDealer)
    IN  [k \in 1..Len(new_cards) |-> send_card(new_cards[k], RESULT_NOT_OVER)]

\* handle_stand_and_send_dealer, lines 114-128: the payloads answering a
\* STAND, rd being the round after apply_player_decision("STAND")
StandPayloads(rd, sentDealer) ==
    LET new_cards == StandNewCards(rd, sentDealer)
        listed == [k \in 1..Len(new_cards) |->
                      IF k = Len(new_cards) /\ rd.outcome \in Outcomes
                      THEN send_card(new_cards[k], outcome_to_result_code(rd.outcome))
                      ELSE send_card(new_cards[k], RESULT_NOT_OVER)]
        ref_card == IF rd.dealer_hand # <<>>
                    THEN rd.dealer_hand[Len(rd.dealer_hand)]
                    ELSE rd.player_hand[Len(rd.player_hand)]
    IN  IF rd.outcome \in Outcomes /\ Len(new_cards) = 0
        THEN listed \o <<send_card(ref_card, outcome_to_result_code(rd.outcome))>>
        ELSE listed

\* variant: the outcome is not looked at before the next Decision is read
LoopNext_IgnoreOutcome(rd) ==
    IF rd.state \in {"PLAYER_TURN", "ROUND_OVER"} THEN "recvDecision"
    ELSE "recordOutcome"

\* run_server_session, lines 187-192 and 219-221: where the decision loop
\* goes next, "recvDecision" being the blocking recv_exact of line 194
LoopNext(rd) ==
    IF rd.outcome \in Outcomes THEN "recordOutcome"
    ELSE IF need_player_decision(rd) THEN "recvDecision"
    ELSE "recordOutcome"

\* run_server_session, lines 223-225
RecordIfOutcome(gs, rd) ==
    IF rd.outcome \in Outcomes THEN record_outcome(gs, rd.outcome) ELSE gs

\* history: log entries and channel entries; outcome is rnd.outcome at the
\* time the server sent the payload ("" where it does not apply)
PayloadEvent(p) ==
    [kind |-> "payload", result |-> p.result, rank |-> p.rank, suit |-> p.suit,
     decision |-> "", outcome |-> ""]

DecisionEvent(d) ==
    [kind |-> "decision", result |-> 0, rank |-> 0, suit |-> 0, decision |-> d,
     outcome |-> ""]

PayloadEvents(ps) == [k \in 1..Len(ps) |-> PayloadEvent(ps[k])]

\* the payloads ps sent while the Round object is rd
SentEvents(ps, rd) ==
    [k \in 1..Len(ps) |-> [PayloadEvents(ps)[k] EXCEPT !.outcome = rd.outcome]]

\* sock.sendall of each payload of ps, in order; round is a history tag
Wire(ps, k) == [n \in 1..Len(ps) |-> [pay |-> ps[n], round |-> k]]

(***************************************************************************)
(* Spec: one session.  A server step runs from one blocking receive to the *)
(* next; sendall never blocks.                                             *)
(***************************************************************************)
Init ==
    /\ rounds \in 1..MaxRounds
    /\ session = GameSession_init(rounds)
    /\ rnd = Round_init
    /\ spc = "roundTop"
    /\ round_index = 0
    /\ sent_player = 0
    /\ sent_dealer = 0
    /\ s2c = <<>>
    /\ c2s = <<>>
    /\ cpc = "roundTop"
    /\ r = 0
    /\ i = 0
    /\ player_ranks = <<>>
    /\ dealer_ranks = <<>>
    /\ wins = 0
    /\ played = 0
    /\ srvLog = <<>>
    /\ cliLog = <<>>
    /\ calls = 0
    /\ CodecIdle
    /\ ConnIdle
    /\ NetIdle

\* run_server_session, lines 147-184: one iteration of the for loop up to
\* the decision loop (or to `continue` on a blackjack)
SrvRoundStart ==
    /\ spc = "roundTop"
    /\ round_index < rounds
    /\ ~is_over(session)
    /\ \E sh \in Shuffles :
         LET started == start(Enter(Round_init), sh)
             pays == InitialPayloads(started)
             counted == [session EXCEPT !.round_counter = @ + 1]
         IN  /\ round_index' = round_index + 1
             /\ s2c' = s2c \o Wire(pays, round_index + 1)
             /\ srvLog' = SentEvents(pays, started)
             /\ sent_dealer' = 1
             /\ IF hand_sum(started.player_hand) = 21
                THEN /\ rnd' = [started EXCEPT !.outcome = "BLACKJACK"]
                     /\ session' = record_outcome(counted, "BLACKJACK")
                     /\ sent_player' = 1
                     /\ spc' = "roundTop"
                ELSE /\ rnd' = started
                     /\ sent_player' = 2
                     /\ IF LoopNext(started) = "recvDecision"
                        THEN /\ spc' = "recvDecision"
                             /\ session' = counted
                        ELSE /\ spc' = "roundTop"
                             /\ session' = RecordIfOutcome(counted, started)
    /\ UNCHANGED <<rounds, c2s, cpc, r, i, player_ranks, dealer_ranks, wins,
                   played, cliLog, calls, codecVars, connVars, netVars>>

\* run_server_session, lines 147-151 and 228-230: the for loop is exhausted
\* (or start_next_round returned None) and the function returns
SrvFinish ==
    /\ spc = "roundTop"
    /\ round_index >= rounds \/ is_over(session)
    /\ spc' = "done"
    /\ UNCHANGED <<rnd, session, round_index, sent_player, sent_dealer, rounds,
                   s2c, c2s, cpc, r, i, player_ranks, dealer_ranks, wins,
                   played, srvLog, cliLog, calls, codecVars, connVars, netVars>>

\* run_server_session, lines 197-225: the Decision decoded as decision is
\* answered, up to the next blocking receive or the end of the round
AnswerDecision(decision) ==
    LET before_p == Len(rnd.player_hand)
        applied == IF decision = DECISION_HIT
                   THEN apply_player_decision(Enter(rnd), "HIT")
                   ELSE apply_player_decision(Enter(rnd), "STAND")
        pays == IF decision = DECISION_HIT
                THEN HitPayloads(applied, before_p)
                ELSE StandPayloads(applied, sent_dealer)
        next == IF decision = DECISION_HIT
                THEN (IF applied.outcome \in Outcomes
                      THEN "recordOutcome" ELSE LoopNext(applied))
                ELSE IF decision = DECISION_STAND
                THEN LoopNext(applied)
                ELSE "recordOutcome"
    IN  /\ rnd' = applied
        /\ s2c' = s2c \o Wire(pays, round_index)
        /\ srvLog' = srvLog \o <<DecisionEvent(decision)>>
                       \o SentEvents(pays, applied)
        /\ sent_dealer' = IF decision = DECISION_HIT
                          THEN sent_dealer ELSE Len(applied.dealer_hand)
        /\ IF next = "recvDecision"
           THEN /\ spc' = "recvDecision"
                /\ session' = session
           ELSE /\ spc' = "roundTop"
                /\ session' = RecordIfOutcome(session, applied)

\* run_server_session, lines 194-225: one Decision read and answered, up to
\* the next blocking receive or the end of the round
SrvDecision ==
    /\ spc = "recvDecision"
    /\ c2s # <<>>
    /\ c2s' = Tail(c2s)
    /\ AnswerDecision(Head(c2s).decision)
    /\ UNCHANGED <<round_index, sent_player, rounds, cpc, r, i, player_ranks,
                   dealer_ranks, wins, played, cliLog, calls, codecVars, connVars, netVars>>

(***************************************************************************)
(* session/client_session.py                                               *)
(***************************************************************************)
\* variant: the first two initial payloads taken as the player's cards
InitialOwner_PlayerFirst(idx) == IF idx \in {0, 1} THEN "player" ELSE "dealer"

\* run_client_session, lines 134-139: whose card the i-th initial payload is
InitialOwner(idx) == IF idx \in {0, 2} THEN "player" ELSE "dealer"

\* variant: the result of an initial payload is not looked at
InitialNext_IgnoreResult(idx, result) ==
    IF idx + 1 < 3 THEN "recvInit" ELSE "prompt"

\* run_client_session, lines 129, 142-153: where the client goes after the
\* initial payload number idx, which carried result
InitialNext(idx, result) ==
    IF result # RESULT_NOT_OVER THEN "roundTop"
    ELSE IF idx + 1 < 3 THEN "recvInit"
    ELSE "prompt"

\* variant: the client prompts again whatever the result
HitNext_AlwaysPrompt(result) == "prompt"

\* run_client_session, lines 170-176: where the client goes after the payload
\* answering a HIT
HitNext(result) == IF result # RESULT_NOT_OVER THEN "roundTop" ELSE "prompt"

\* variant: the client reads one payload after a STAND
StandNext_OnePayload(result) == "roundTop"

\* run_client_session, lines 193-200: where the client goes after a payload
\* answering a STAND
StandNext(result) == IF result # RESULT_NOT_OVER THEN "roundTop" ELSE "recvStand"

\* tcp_sock.sendall(pack_payload_decision(...)), lines 158 and 179; round is
\* a history tag
SendDecision(decision, k) == <<[decision |-> decision, round |-> k]>>

\* run_client_session, lines 157 and 178: the answer typed at the prompt
ChoiceDecision(choice) ==
    IF choice \in {"h", "hit"} THEN DECISION_HIT
    ELSE IF choice \in {"s", "stand"} THEN DECISION_STAND
    ELSE "invalid"

Choices == {"h", "hit", "s", "stand", "x"}

\* played += 1; if payload.result == RESULT_WIN: wins += 1
TallyWins(w, result) == IF result = RESULT_WIN THEN w + 1 ELSE w

\* run_client_session, lines 118-126: next iteration of the for loop, or return
CliRoundStart ==
    /\ cpc = "roundTop"
    /\ IF r < rounds
       THEN /\ r' = r + 1
            /\ player_ranks' = <<>>
            /\ dealer_ranks' = <<>>
            /\ i' = 0
            /\ cliLog' = <<>>
            /\ cpc' = "recvInit"
       ELSE /\ cpc' = "done"
            /\ UNCHANGED <<r, player_ranks, dealer_ranks, i, cliLog>>
    /\ UNCHANGED <<rnd, session, spc, round_index, sent_player, sent_dealer,
                   rounds, s2c, c2s, wins, played, srvLog, calls, codecVars, connVars, netVars>>

\* run_client_session, lines 129-151: one of the three initial receives
CliRecvInitial ==
    /\ cpc = "recvInit"
    /\ s2c # <<>>
    /\ LET payload == Head(s2c).pay
       IN  /\ s2c' = Tail(s2c)
           /\ cliLog' = Append(cliLog, PayloadEvent(payload))
           /\ IF InitialOwner(i) = "player"
              THEN /\ player_ranks' = Append(player_ranks, payload.rank)
                   /\ dealer_ranks' = dealer_ranks
              ELSE /\ dealer_ranks' = Append(dealer_ranks, payload.rank)
                   /\ player_ranks' = player_ranks
           /\ IF payload.result # RESULT_NOT_OVER
              THEN /\ played' = played + 1
                   /\ wins' = TallyWins(wins, payload.result)
              ELSE UNCHANGED <<played, wins>>
           /\ cpc' = InitialNext(i, payload.result)
           /\ i' = IF InitialNext(i, payload.result) = "roundTop" THEN i ELSE i + 1
    /\ UNCHANGED <<rnd, session, spc, round_index, sent_player, sent_dealer,
                   rounds, c2s, r, srvLog, calls, codecVars, connVars, netVars>>

\* run_client_session, lines 156-158, 178-179, 201-202: one answer at the prompt
CliPrompt ==
    /\ cpc = "prompt"
    /\ \E choice \in Choices :
         LET decision == ChoiceDecision(choice)
         IN  IF decision = "invalid"
             THEN UNCHANGED <<c2s, cpc, cliLog>>
             ELSE /\ c2s' = c2s \o SendDecision(decision, r)
                  /\ cliLog' = Append(cliLog, DecisionEvent(decision))
                  /\ cpc' = IF decision = DECISION_HIT THEN "recvHit" ELSE "recvStand"
    /\ UNCHANGED <<rnd, session, spc, round_index, sent_player, sent_dealer,
                   rounds, s2c, r, i, player_ranks, dealer_ranks, wins, played,
                   srvLog, calls, codecVars, connVars, netVars>>

\* run_client_session, lines 161-176: the payload answering a HIT
CliRecvHit ==
    /\ cpc = "recvHit"
    /\ s2c # <<>>
    /\ LET payload == Head(s2c).pay
       IN  /\ s2c' = Tail(s2c)
           /\ cliLog' = Append(cliLog, PayloadEvent(payload))
           /\ player_ranks' = Append(player_ranks, payload.rank)
           /\ IF payload.result # RESULT_NOT_OVER
              THEN /\ played' = played + 1
                   /\ wins' = TallyWins(wins, payload.result)
              ELSE UNCHANGED <<played, wins>>
           /\ cpc' = HitNext(payload.result)
    /\ UNCHANGED <<rnd, session, spc, round_index, sent_player, sent_dealer,
                   rounds, c2s, r, i, dealer_ranks, srvLog, calls, codecVars, connVars, netVars>>

\* run_client_session, lines 183-200: one payload answering a STAND
CliRecvStand ==
    /\ cpc = "recvStand"
    /\ s2c # <<>>
    /\ LET payload == Head(s2c).pay
       IN  /\ s2c' = Tail(s2c)
           /\ cliLog' = Append(cliLog, PayloadEvent(payload))
           /\ dealer_ranks' = Append(dealer_ranks, payload.rank)
           /\ IF payload.result # RESULT_NOT_OVER
              THEN /\ played' = played + 1
                   /\ wins' = TallyWins(wins, payload.result)
              ELSE UNCHANGED <<played, wins>>
           /\ cpc' = StandNext(payload.result)
    /\ UNCHANGED <<rnd, session, spc, round_index, sent_player, sent_dealer,
                   rounds, c2s, r, i, player_ranks, srvLog, calls, codecVars, connVars, netVars>>

Next ==
    \/ SrvRoundStart
    \/ SrvFinish
    \/ SrvDecision
    \/ CliRoundStart
    \/ CliRecvInitial
    \/ CliPrompt
    \/ CliRecvHit
    \/ CliRecvStand

Spec == Init /\ [][Next]_vars

(***************************************************************************)
(* LiveSpec: the same session under fair scheduling.  Both threads run     *)
(* whenever they can; the person at the keyboard eventually types a valid  *)
(* answer.  The two sides share nothing but the two FIFO streams and a     *)
(* send never blocks, so the server's steps are taken while the client is  *)
(* blocked in a receive (or has returned): every other interleaving has    *)
(* the same receives in the same order on both sides.                      *)
(***************************************************************************)
\* the client is blocked in recv_exact with nothing to read, or has returned
ClientBlocked ==
    \/ cpc = "done"
    \/ cpc \in {"recvInit", "recvHit", "recvStand"} /\ s2c = <<>>

\* the server is not blocked: it is between rounds, or in recv_exact with a
\* Decision to read
SrvCanStep == spc = "roundTop" \/ (spc = "recvDecision" /\ c2s # <<>>)

\* the steps of run_client_session
CliNext ==
    \/ CliRoundStart
    \/ CliRecvInitial
    \/ CliPrompt
    \/ CliRecvHit
    \/ CliRecvStand

\* what every step of run_server_session changes, and no step of the client
srvVars == <<rnd, spc, round_index>>

LiveNext ==
    \/ ClientBlocked /\ SrvRoundStart
    \/ ClientBlocked /\ SrvFinish
    \/ ClientBlocked /\ SrvDecision
    \/ CliRoundStart
    \/ CliRecvInitial
    \/ CliPrompt
    \/ CliRecvHit
    \/ CliRecvStand

\* weak fairness of the client's steps (an invalid answer at the prompt
\* changes nothing, so a valid one is eventually typed) and of the server's
\* steps; the latter is WF_srvVars(LiveNext) with its enabling condition
\* written out from the guards of the three server actions
LiveSpec ==
    /\ Init
    /\ [][LiveNext]_vars
    /\ WF_vars(CliNext)
    /\ ([]<>~(ClientBlocked /\ SrvCanStep) \/ []<><<TRUE>>_srvVars)

(***************************************************************************)
(* CodecSpec: the pack and unpack functions of common/protocol.py applied  *)
(* to arguments and to received buffers.                                   *)
(***************************************************************************)
Rep(x, n) == [k \in 1..n |-> x]

\* code points used in names: "A", "é" (two bytes in UTF-8) and NUL
NameAlphabet == {65, 233, 0}

ShortNames == UNION {[1..n -> NameAlphabet] : n \in 0..MaxNameChars}

\* names that fill the field exactly, and names one byte too long
LongNames ==
    {Rep(65, NAME_LEN), Rep(233, NAME_LEN \div 2),
     Rep(65, NAME_LEN - 1) \o <<233>>, Rep(65, NAME_LEN + 1)}

Names == ShortNames \cup LongNames

Ports == {-1, 0, 255, 256, 2048, 65535, 65536}

RoundsValues == {-1, 0, 1, 7, 255, 256}

Results == {-1, 0, 3, 255, 256}

Ranks == {0, 1, 10, 13, 14}

Suits == {-1, 0, 3, 4}

\* the arguments of the four pack functions
Messages ==
    [kind : {"offer"}, tcp_port : Ports, server_name : Names]
        \cup [kind : {"request"}, rounds : RoundsValues, team_name : Names]
        \cup [kind : {"decision"}, decision : Literals]
        \cup [kind : {"payload"}, result : Results, rank : Ranks, suit : Suits]

\* received buffers: a cookie, a type tag and a body, one byte short, exact
\* or one byte long
Cookies == {PackU32(MAGIC_COOKIE), <<171, 205, 220, 187>>}

Tags == {TYPE_OFFER, TYPE_REQUEST, TYPE_PAYLOAD, 5}

Bodies ==
    {BigEndian(p, 2) \o encode_fixed_str(n, NAME_LEN) : p \in {0, 2048}, n \in Names}
        \cup {<<k>> \o encode_fixed_str(n, NAME_LEN) : k \in {1, 255}, n \in Names}
        \cup {Chars("Hittt"), Chars("Stand"), Chars("Hello"),
              <<104, 105, 116, 0, 0>>, <<72, 105, 116, 116, 255>>}
        \cup {<<res>> \o BigEndian(rk, 2) \o <<st>> :
                  res \in {0, 255}, rk \in {0, 1, 13, 14, 256}, st \in {0, 3, 4}}

Framed == {c \o <<t>> \o b : c \in Cookies, t \in Tags, b \in Bodies}

Buffers ==
    Framed \cup {SubSeq(f, 1, Len(f) - 1) : f \in Framed}
           \cup {f \o <<0>> : f \in Framed}

CodecInit ==
    /\ \/ msg \in Messages /\ pkt = <<>>
       \/ msg = NoMsg /\ pkt \in Buffers
    /\ call = "none"
    /\ ret = NoReturn
    /\ rnd = Round_init
    /\ calls = 0
    /\ SessionIdle
    /\ ConnIdle
    /\ NetIdle

PackCalls ==
    {"pack_offer", "pack_request", "pack_payload_decision", "pack_payload_server"}

\* a pack call stores the bytes it returns
Packed(name, out) ==
    /\ call' = name
    /\ ret' = out
    /\ pkt' = IF out.returned THEN out.value ELSE pkt
    /\ UNCHANGED <<msg, rnd, calls, sessionVars, connVars, netVars>>

PackOffer ==
    /\ call = "none"
    /\ msg.kind = "offer"
    /\ Packed("pack_offer", pack_offer(msg.tcp_port, msg.server_name))

PackRequest ==
    /\ call = "none"
    /\ msg.kind = "request"
    /\ Packed("pack_request", pack_request(msg.rounds, msg.team_name))

PackPayloadDecision ==
    /\ call = "none"
    /\ msg.kind = "decision"
    /\ Packed("pack_payload_decision", pack_payload_decision(msg.decision))

PackPayloadServer ==
    /\ call = "none"
    /\ msg.kind = "payload"
    /\ Packed("pack_payload_server",
              pack_payload_server(msg.result, msg.rank, msg.suit))

\* a bytes object is at hand: received, or returned by a pack call
HasBuffer ==
    \/ call = "none" /\ msg = NoMsg
    \/ call \in PackCalls /\ ret.returned

Unpacked(name, out) ==
    /\ call' = name
    /\ ret' = out
    /\ UNCHANGED <<msg, pkt, rnd, calls, sessionVars, connVars, netVars>>

UnpackOffer == HasBuffer /\ Unpacked("unpack_offer", unpack_offer(pkt))

UnpackRequest == HasBuffer /\ Unpacked("unpack_request", unpack_request(pkt))

UnpackPayloadDecision ==
    HasBuffer /\ Unpacked("unpack_payload_decision", unpack_payload_decision(pkt))

UnpackPayloadServer ==
    HasBuffer /\ Unpacked("unpack_payload_server", unpack_payload_server(pkt))

CodecNext ==
    \/ PackOffer
    \/ PackRequest
    \/ PackPayloadDecision
    \/ PackPayloadServer
    \/ UnpackOffer
    \/ UnpackRequest
    \/ UnpackPayloadDecision
    \/ UnpackPayloadServer

CodecSpec == CodecInit /\ [][CodecNext]_vars

(***************************************************************************)
(* ConnSpec: network/server/server_main.py handle_client on one accepted    *)
(* connection, against a peer that sends any bytes.  Payloads are read by   *)
(* the peer as they arrive: s2c holds those of the latest server step.  The *)
(* peer sends and closes while the server is blocked in a receive: what a   *)
(* receive returns does not depend on how long before it the bytes came.    *)
(***************************************************************************)
\* bytes of the team name "A" in a Request
PeerName == <<65>>

\* Requests the peer may send: well-formed ones, one with another cookie,
\* one with the type tag of a payload, one a byte short
PeerRequests ==
    {pack_request(n, PeerName).value : n \in 0..MaxRounds}
        \cup {<<171, 205, 220, 187>> \o SubSeq(pack_request(1, PeerName).value, 5, 38),
              PackU32(MAGIC_COOKIE) \o <<TYPE_PAYLOAD>>
                  \o SubSeq(pack_request(1, PeerName).value, 6, 38),
              SubSeq(pack_request(1, PeerName).value, 1, 37)}

\* Decisions the peer may send: the two well-formed ones, one with an
\* unrecognized literal, one with another cookie, one with the type tag of
\* an Offer, and the first four bytes of one
PeerDecisions ==
    {pack_payload_decision(DECISION_HIT).value,
     pack_payload_decision(DECISION_STAND).value,
     PackU32(MAGIC_COOKIE) \o <<TYPE_PAYLOAD>> \o Chars("Hello"),
     <<171, 205, 220, 187>> \o <<TYPE_PAYLOAD>> \o Chars(DECISION_STAND),
     PackU32(MAGIC_COOKIE) \o <<TYPE_OFFER>> \o Chars(DECISION_STAND),
     PackU32(MAGIC_COOKIE)}

\* what the peer sends in one piece: first a Request, alone or with the
\* first Decision right behind it, and then Decisions
PeerBuffers ==
    IF peer = "connected"
    THEN PeerRequests
             \cup {pack_request(1, PeerName).value
                       \o pack_payload_decision(DECISION_HIT).value}
    ELSE PeerDecisions

ConnInit ==
    /\ spc = "recvRequest"
    /\ inbuf = <<>>
    /\ rbuf = <<>>
    /\ peer = "connected"
    /\ err = NoError
    /\ rnd = Round_init
    /\ session = GameSession_init(0)
    /\ round_index = 0
    /\ sent_player = 0
    /\ sent_dealer = 0
    /\ rounds = 0
    /\ s2c = <<>>
    /\ c2s = <<>>
    /\ cpc = "done"
    /\ r = 0
    /\ i = 0
    /\ player_ranks = <<>>
    /\ dealer_ranks = <<>>
    /\ wins = 0
    /\ played = 0
    /\ srvLog = <<>>
    /\ cliLog = <<>>
    /\ calls = 0
    /\ CodecIdle
    /\ NetIdle

clientVars == <<c2s, cpc, r, i, player_ranks, dealer_ranks, wins, played, cliLog>>

\* the peer sends
PeerSend ==
    /\ peer # "closed"
    /\ spc \in {"recvRequest", "recvDecision"}
    /\ inbuf = <<>>
    /\ s2c = <<>>
    /\ \E b \in PeerBuffers : inbuf' = b
    /\ peer' = "sent"
    /\ UNCHANGED <<rnd, session, spc, round_index, sent_player, sent_dealer,
                   rounds, s2c, srvLog, clientVars, calls, codecVars, netVars,
                   rbuf, err>>

\* the peer reads the payloads sent to it
PeerRecv ==
    /\ s2c # <<>>
    /\ s2c' = <<>>
    /\ UNCHANGED <<rnd, session, spc, round_index, sent_player, sent_dealer,
                   rounds, srvLog, clientVars, calls, codecVars, connVars, netVars>>

\* the peer closes the connection
PeerClose ==
    /\ peer # "closed"
    /\ spc \in {"recvRequest", "recvDecision"}
    /\ s2c = <<>>
    /\ peer' = "closed"
    /\ UNCHANGED <<rnd, session, spc, round_index, sent_player, sent_dealer,
                   rounds, s2c, srvLog, clientVars, calls, codecVars, netVars,
                   inbuf, rbuf, err>>

\* the n of the recv_exact call the server is in
RecvLen == IF spc = "recvRequest" THEN REQUEST_LEN ELSE PAYLOAD_CLIENT_LEN

\* sock.recv(remaining) returns all it can, or only the first ShortRead bytes
RecvSizes(remaining, avail) ==
    {Min(remaining, avail)} \cup {m \in {ShortRead} : m < Min(remaining, avail)}

\* handle_client, lines 31-39: the Request bytes are decoded and the session
\* starts, or the exception is caught and the socket closed
HandleRequest(data) ==
    LET out == unpack_request(data)
    IN  IF out.returned
        THEN /\ rounds' = out.value.rounds
             /\ session' = GameSession_init(out.value.rounds)
             /\ spc' = "roundTop"
             /\ err' = err
        ELSE /\ spc' = "closed"
             /\ err' = [at |-> "recvRequest", raised |-> out.raised, why |-> out.why]
             /\ UNCHANGED <<rounds, session>>

\* run_server_session, lines 195-225, and handle_client, lines 38-45: the
\* Decision bytes are decoded and answered, or the exception is caught and
\* the socket closed
HandleDecision(data) ==
    LET out == unpack_payload_decision(data)
    IN  IF out.returned
        THEN /\ AnswerDecision(out.value)
             /\ err' = err
        ELSE /\ spc' = "closed"
             /\ err' = [at |-> "recvDecision", raised |-> out.raised, why |-> out.why]
             /\ UNCHANGED <<rnd, session, s2c, srvLog, sent_dealer>>

\* client_sock.close() discards what was received and not read
Unread(rest) == IF spc' = "closed" THEN <<>> ELSE rest

\* one sock.recv of recv_exact that returns bytes; with the last chunk the
\* server goes on to the next blocking receive
HcRecv ==
    /\ spc \in {"recvRequest", "recvDecision"}
    /\ s2c = <<>>
    /\ inbuf # <<>>
    /\ \E m \in RecvSizes(RecvLen - Len(rbuf), Len(inbuf)) :
         LET data == rbuf \o SubSeq(inbuf, 1, m)
         IN  /\ IF Len(data) < RecvLen
                THEN /\ rbuf' = data
                     /\ UNCHANGED <<rnd, session, spc, rounds, s2c, srvLog,
                                    sent_dealer, err>>
                ELSE /\ rbuf' = <<>>
                     /\ IF spc = "recvRequest"
                        THEN /\ HandleRequest(data)
                             /\ UNCHANGED <<rnd, s2c, srvLog, sent_dealer>>
                        ELSE /\ HandleDecision(data)
                             /\ UNCHANGED rounds
             /\ inbuf' = Unread(SubSeq(inbuf, m + 1, Len(inbuf)))
    /\ UNCHANGED <<round_index, sent_player, clientVars, calls, codecVars, netVars, peer>>

\* sock.recv returns b"": recv_exact raises ConnectionError, handle_client
\* catches it and closes the socket
HcRecvClosed ==
    /\ spc \in {"recvRequest", "recvDecision"}
    /\ s2c = <<>>
    /\ inbuf = <<>>
    /\ peer = "closed"
    /\ spc' = "closed"
    /\ rbuf' = <<>>
    /\ err' = [at |-> spc, raised |-> "ConnectionError", why |-> "closed"]
    /\ UNCHANGED <<rnd, session, round_index, sent_player, sent_dealer, rounds,
                   s2c, srvLog, clientVars, calls, codecVars, netVars, inbuf, peer>>

\* handle_client, lines 41-47: run_server_session has returned
HcClose ==
    /\ spc = "done"
    /\ s2c = <<>>
    /\ spc' = "closed"
    /\ inbuf' = <<>>
    /\ UNCHANGED <<rnd, session, round_index, sent_player, sent_dealer, rounds,
                   s2c, srvLog, clientVars, calls, codecVars, netVars, rbuf, peer, err>>

\* run_server_session on the connection: the next round, or the return
HcRoundStart == s2c = <<>> /\ SrvRoundStart

HcFinish == s2c = <<>> /\ SrvFinish

ConnNext ==
    \/ PeerSend
    \/ PeerRecv
    \/ PeerClose
    \/ HcRecv
    \/ HcRecvClosed
    \/ HcRoundStart
    \/ HcFinish
    \/ HcClose

ConnSpec == ConnInit /\ [][ConnNext]_vars

(***************************************************************************)
(* ServerSpec: server_main.main.  The main thread accepts connections and  *)
(* starts one handle_client thread for each; the broadcast_offers thread   *)
(* sends offers until stop_event is set.  A handler thread is followed     *)
(* from receive to receive: its GameSession and the state of its Round.    *)
(* The threads share no object: each handler works on the socket it was    *)
(* given and on the GameSession it created.                                *)
(***************************************************************************)
\* a handle_client thread just started, lines 26-30
NewHandler ==
    [hpc |-> "recvRequest", sock |-> "open", session |-> GameSession_init(0),
     round |-> "None", caught |-> ""]

\* variant: the socket is left open when the handler ends
handle_client_finally_LeavesOpen(h, e) ==
    [hpc |-> "closed", sock |-> h.sock, session |-> GameSession_init(0),
     round |-> "None", caught |-> e]

\* handle_client, lines 38-47: the exception e, if any, is caught, the socket
\* is closed and the thread ends (its GameSession and Round are dropped)
handle_client_finally(h, e) ==
    [hpc |-> "closed", sock |-> "closed", session |-> GameSession_init(0),
     round |-> "None", caught |-> e]

\* the exceptions recv_exact, the decoders and sendall raise
HandlerErrors == {"ConnectionError", "ProtocolError"}

\* how the rounds of these sessions end
RoundEnds == {"WIN", "LOSS"}

\* main, lines 52-68: the listening socket is open, the beacon thread started
ServerInit ==
    /\ conns = <<>>
    /\ mainpc = "accept"
    /\ stop_event = FALSE
    /\ offers = 0
    /\ want = 0
    /\ asked = <<>>
    /\ printed = <<>>
    /\ csock = NoSocket
    /\ lpc = "none"
    /\ rnd = Round_init
    /\ calls = 0
    /\ SessionIdle
    /\ CodecIdle
    /\ ConnIdle

\* main, lines 72-86: accept returns a connection and its thread is started
\* (a socket.timeout changes nothing)
MainAccept ==
    /\ mainpc = "accept"
    /\ Len(conns) < MaxConns
    /\ conns' = Append(conns, NewHandler)
    /\ UNCHANGED <<mainpc, stop_event, offers, rnd, calls, sessionVars,
                   codecVars, connVars, recvVars, cmVars>>

\* main, lines 88-95: KeyboardInterrupt; main returns and the process ends
\* with its daemon threads
MainInterrupt ==
    /\ mainpc = "accept"
    /\ mainpc' = "stopped"
    /\ stop_event' = TRUE
    /\ UNCHANGED <<conns, offers, rnd, calls, sessionVars, codecVars,
                   connVars, recvVars, cmVars>>

\* broadcast_offers, lines 53-56: one iteration of the loop
BroadcastOffer ==
    /\ ~stop_event
    /\ offers < MaxOffers
    /\ offers' = offers + 1
    /\ UNCHANGED <<conns, mainpc, stop_event, rnd, calls, sessionVars,
                   codecVars, connVars, recvVars, cmVars>>

\* the handler c takes the step that makes its record h
HandlerStep(c, h) ==
    /\ mainpc = "accept"
    /\ conns' = [conns EXCEPT ![c] = h]
    /\ UNCHANGED <<mainpc, stop_event, offers, rnd, calls, sessionVars,
                   codecVars, connVars, recvVars, cmVars>>

\* handle_client, lines 30-36, and run_server_session, line 143: the Request
\* is read and accepted and the GameSession created
ThRequest(c) ==
    /\ conns[c].hpc = "recvRequest"
    /\ \E n \in 0..MaxRounds :
         HandlerStep(c, [conns[c] EXCEPT !.hpc = "session",
                                         !.session = GameSession_init(n)])

\* run_server_session, lines 147-194: the next round is started, its cards
\* are sent and the handler waits for a Decision
ThRoundStart(c) ==
    /\ conns[c].hpc = "session"
    /\ conns[c].round # "PLAYER_TURN"
    /\ ~is_over(conns[c].session)
    /\ HandlerStep(c, [conns[c] EXCEPT !.session.round_counter = @ + 1,
                                       !.round = "PLAYER_TURN"])

\* run_server_session, lines 195-226: the Decisions are answered up to the
\* end of the round and its outcome o is recorded
ThRoundEnd(c) ==
    /\ conns[c].hpc = "session"
    /\ conns[c].round = "PLAYER_TURN"
    /\ \E o \in RoundEnds :
         HandlerStep(c, [conns[c] EXCEPT !.session = record_outcome(@, o),
                                         !.round = "ROUND_OVER"])

\* run_server_session returns and handle_client closes the socket
ThReturn(c) ==
    /\ conns[c].hpc = "session"
    /\ conns[c].round # "PLAYER_TURN"
    /\ is_over(conns[c].session)
    /\ HandlerStep(c, handle_client_finally(conns[c], ""))

\* recv_exact or the decoder raises in the handler c, which was waiting for
\* the Request or for a Decision
ThError(c) ==
    /\ \/ conns[c].hpc = "recvRequest"
       \/ conns[c].hpc = "session" /\ conns[c].round = "PLAYER_TURN"
    /\ \E e \in HandlerErrors :
         HandlerStep(c, handle_client_finally(conns[c], e))

ServerNext ==
    \/ MainAccept
    \/ MainInterrupt
    \/ BroadcastOffer
    \/ \E c \in 1..Len(conns) : ThRequest(c)
    \/ \E c \in 1..Len(conns) : ThRoundStart(c)
    \/ \E c \in 1..Len(conns) : ThRoundEnd(c)
    \/ \E c \in 1..Len(conns) : ThReturn(c)
    \/ \E c \in 1..Len(conns) : ThError(c)

ServerSpec == ServerInit /\ [][ServerNext]_vars

(***************************************************************************)
(* RecvSpec: one call of recv_exact (common/protocol.py, and its copy in   *)
(* network/server/server_tcp.py) on a TCP stream.  The k-th byte the peer  *)
(* sends has the value k.  sock.recv(size) blocks while nothing is there,  *)
(* returns between 1 and size of the bytes waiting, or b"" at the end of   *)
(* the stream.                                                             *)
(***************************************************************************)
RecvFunctions == {"protocol.recv_exact", "server_tcp.recv_exact"}

\* number of bytes the peer has sent so far (rbuf keeps the chunks received)
StreamLen == Len(rbuf) + Len(inbuf)

\* recv_exact is in its loop: called, and neither returned nor raised
RecvRunning == call # "none" /\ ~ret.returned /\ ret.raised = ""

\* raise kind(...)
RaisedAs(kind) ==
    [raised |-> kind, why |-> "", returned |-> FALSE, value |-> NoValue,
     read |-> FALSE]

\* variant: every sock.recv asks for n bytes
RecvArg_Whole(n, received) == n

\* the argument of sock.recv: `remaining` (protocol.py line 229),
\* `n - received` (server_tcp.py line 25)
RecvArg(n, received) == n - received

RecvInit ==
    /\ want = 0
    /\ asked = <<>>
    /\ inbuf = <<>>
    /\ rbuf = <<>>
    /\ peer = "connected"
    /\ err = NoError
    /\ call = "none"
    /\ ret = NoReturn
    /\ msg = NoMsg
    /\ pkt = <<>>
    /\ conns = <<>>
    /\ mainpc = "none"
    /\ stop_event = FALSE
    /\ offers = 0
    /\ printed = <<>>
    /\ csock = NoSocket
    /\ lpc = "none"
    /\ rnd = Round_init
    /\ calls = 0
    /\ SessionIdle

\* the peer sends some more bytes
RsPeerSend ==
    /\ peer = "connected"
    /\ StreamLen < MaxStream
    /\ \E m \in 1..(MaxStream - StreamLen) :
         inbuf' = inbuf \o [k \in 1..m |-> StreamLen + k]
    /\ UNCHANGED <<rbuf, peer, err, want, asked, call, ret, msg, pkt, rnd,
                   calls, sessionVars, mainVars, cmVars>>

\* the peer closes the connection
RsPeerClose ==
    /\ peer = "connected"
    /\ peer' = "closed"
    /\ UNCHANGED <<inbuf, rbuf, err, want, asked, call, ret, msg, pkt, rnd,
                   calls, sessionVars, mainVars, cmVars>>

\* recv_exact(sock, n) is called and runs up to its first sock.recv:
\* protocol.py raises ValueError for a negative n (lines 224-225) and both
\* return b"" when the loop is not entered
RsCall ==
    /\ call = "none"
    /\ \E f \in RecvFunctions, n \in (-1)..MaxWant :
         /\ call' = f
         /\ want' = n
         /\ ret' = IF n < 0 /\ f = "protocol.recv_exact"
                   THEN RaisedAs("ValueError")
                   ELSE IF n <= 0 THEN Returned(<<>>, FALSE)
                   ELSE NoReturn
    /\ UNCHANGED <<inbuf, rbuf, peer, err, asked, msg, pkt, rnd, calls,
                   sessionVars, mainVars, cmVars>>

\* sock.recv returns a chunk of m bytes; the function returns the joined
\* chunks when nothing is missing any more, and calls sock.recv again
\* otherwise
RsRecv ==
    /\ RecvRunning
    /\ inbuf # <<>>
    /\ LET size == RecvArg(want, Len(rbuf))
       IN  \E m \in 1..Min(size, Len(inbuf)) :
             LET data == rbuf \o SubSeq(inbuf, 1, m)
             IN  /\ asked' = Append(asked, [size |-> size, got |-> m])
                 /\ rbuf' = data
                 /\ inbuf' = SubSeq(inbuf, m + 1, Len(inbuf))
                 /\ ret' = IF Len(data) >= want
                           THEN Returned(data, FALSE) ELSE NoReturn
    /\ UNCHANGED <<peer, err, want, call, msg, pkt, rnd, calls, sessionVars,
                   mainVars, cmVars>>

\* sock.recv returns b"": ConnectionError
RsRecvEof ==
    /\ RecvRunning
    /\ inbuf = <<>>
    /\ peer = "closed"
    /\ asked' = Append(asked, [size |-> RecvArg(want, Len(rbuf)), got |-> 0])
    /\ ret' = RaisedAs("ConnectionError")
    /\ UNCHANGED <<inbuf, rbuf, peer, err, want, call, msg, pkt, rnd, calls,
                   sessionVars, mainVars, cmVars>>

RecvNext ==
    \/ RsPeerSend
    \/ RsPeerClose
    \/ RsCall
    \/ RsRecv
    \/ RsRecvEof

RecvSpec == RecvInit /\ [][RecvNext]_vars

(***************************************************************************)
(* ClientSpec: the client's discovery loop.  One of three programs runs:   *)
(* client_main.main (listen, report the offer, ask for the rounds, call    *)
(* connect_and_send_request, listen again), client_listener.main (listen   *)
(* and report) and client_listener.wait_for_offer (listen until a valid    *)
(* offer and return it).  printed holds the 'Received offer' lines.        *)
(***************************************************************************)
ClientPrograms == {"client_main.main", "client_listener.main", "wait_for_offer"}

\* the address the datagrams come from
ServerIp == "10.0.0.5"

\* a well-formed offer
GoodOffer(tcp_port) == pack_offer(tcp_port, PeerName).value

\* what sock.recvfrom returns: offers, an offer with another cookie, one
\* with the type tag of a Request, one a byte short, b"" and b"corrupted"
Datagrams ==
    {GoodOffer(p) : p \in {q \in Ports : pack_offer(q, PeerName).returned}}
        \cup {<<171, 205, 220, 187>> \o SubSeq(GoodOffer(0), 5, OFFER_LEN),
              PackU32(MAGIC_COOKIE) \o <<TYPE_REQUEST>>
                  \o SubSeq(GoodOffer(0), 6, OFFER_LEN),
              SubSeq(GoodOffer(0), 1, OFFER_LEN - 1),
              <<>>,
              <<99, 111, 114, 114, 117, 112, 116, 101, 100>>}

\* print(f"Received offer from {server_ip}, server name = ..., tcp port = ...")
ReceivedOffer(server_ip, offer) ==
    [text |-> "Received offer", server_ip |-> server_ip,
     server_name |-> offer.server_name, tcp_port |-> offer.tcp_port]

\* connect_and_send_request (client_main.py lines 23-37): the socket as the
\* call leaves it and what the call returns or raises; how tells whether
\* connect and sendall succeed
connect_and_send_request(server_ip, tcp_port, team_name, n, how) ==
    LET req == pack_request(n, team_name)
    IN  IF ~req.returned
        THEN [sock |-> NoSocket, ret |-> req]
        ELSE IF how = "connect fails"
        THEN [sock |-> [state |-> "closed", addr |-> <<>>, sent |-> <<>>],
              ret |-> RaisedAs("OSError")]
        ELSE IF how = "sendall fails"
        THEN [sock |-> [state |-> "closed", addr |-> <<server_ip, tcp_port>>,
                        sent |-> <<>>],
              ret |-> RaisedAs("OSError")]
        ELSE [sock |-> [state |-> "closed", addr |-> <<server_ip, tcp_port>>,
                        sent |-> <<req.value>>],
              ret |-> Returned(NoValue, FALSE)]

ClientInit ==
    /\ call \in ClientPrograms
    /\ lpc = "listen"
    /\ printed = <<>>
    /\ csock = NoSocket
    /\ pkt = <<>>
    /\ msg = NoMsg
    /\ ret = NoReturn
    /\ calls = 0
    /\ conns = <<>>
    /\ mainpc = "none"
    /\ stop_event = FALSE
    /\ offers = 0
    /\ want = 0
    /\ asked = <<>>
    /\ rnd = Round_init
    /\ SessionIdle
    /\ ConnIdle

\* sock.recvfrom returns a datagram and unpack_offer is applied to it: a
\* datagram it refuses is dropped (`continue`), an offer is reported or
\* returned (a socket.timeout in wait_for_offer changes nothing)
ClRecvfrom ==
    /\ lpc = "listen"
    /\ calls < MaxDatagrams
    /\ calls' = calls + 1
    /\ \E data \in Datagrams :
         LET out == unpack_offer(data)
         IN  /\ pkt' = data
             /\ IF ~out.returned
                THEN UNCHANGED <<lpc, printed, ret>>
                ELSE IF call = "wait_for_offer"
                THEN /\ ret' = Returned([offer |-> out.value,
                                         server_ip |-> ServerIp], FALSE)
                     /\ lpc' = "returned"
                     /\ printed' = printed
                ELSE /\ printed' = Append(printed, ReceivedOffer(ServerIp, out.value))
                     /\ lpc' = IF call = "client_main.main" THEN "rounds" ELSE lpc
                     /\ ret' = ret
    /\ UNCHANGED <<call, msg, csock, rnd, sessionVars, connVars, mainVars,
                   recvVars>>

\* client_main.main, lines 61-78: a number of rounds in 1..255 is typed,
\* connect_and_send_request is called, and the program listens again
ClConnect ==
    /\ call = "client_main.main"
    /\ lpc = "rounds"
    /\ \E n \in 1..MaxRounds, how \in {"ok", "connect fails", "sendall fails"} :
         LET offer == unpack_offer(pkt).value
             done == connect_and_send_request(ServerIp, offer.tcp_port,
                                              PeerName, n, how)
         IN  /\ msg' = [kind |-> "request", rounds |-> n, team_name |-> PeerName]
             /\ csock' = done.sock
             /\ ret' = done.ret
    /\ lpc' = "listen"
    /\ UNCHANGED <<call, pkt, printed, calls, rnd, sessionVars, connVars,
                   mainVars, recvVars>>

\* KeyboardInterrupt while listening: the UDP socket is closed
ClInterrupt ==
    /\ call # "wait_for_offer"
    /\ lpc = "listen"
    /\ lpc' = "stopped"
    /\ UNCHANGED <<call, msg, pkt, ret, printed, csock, calls, rnd,
                   sessionVars, connVars, mainVars, recvVars>>

ClientNext ==
    \/ ClRecvfrom
    \/ ClConnect
    \/ ClInterrupt

ClientSpec == ClientInit /\ [][ClientNext]_vars

(***************************************************************************)
(* HandSpec: a Hand object (kept in rnd.player_hand) to which cards of any *)
(* rank are added, and the list of their ranks as the client keeps it      *)
(* (player_ranks); Hand.hand_sum and the client's _hand_sum are called in  *)
(* any order between the additions.                                        *)
(***************************************************************************)
\* the value one rank adds in the for loop of _hand_sum
RankValue(rk) == IF rk = 1 THEN 11 ELSE IF rk >= 11 THEN 10 ELSE rk

\* the for loop of _hand_sum: total
RECURSIVE RanksTotal(_)
RanksTotal(ranks) ==
    IF ranks = <<>> THEN 0 ELSE RankValue(Head(ranks)) + RanksTotal(Tail(ranks))

\* the for loop of _hand_sum: aces
RECURSIVE RanksAces(_)
RanksAces(ranks) ==
    IF ranks = <<>> THEN 0
    ELSE (IF Head(ranks) = 1 THEN 1 ELSE 0) + RanksAces(Tail(ranks))

\* the while loop of _hand_sum
RECURSIVE RanksDowngrade(_, _)
RanksDowngrade(total, aces) ==
    IF total > 21 /\ aces > 0 THEN RanksDowngrade(total - 10, aces - 1) ELSE total

\* variant: an Ace always counts 11
client_hand_sum_HardAce(ranks) == RanksTotal(ranks)

\* _hand_sum of session/client_session.py
client_hand_sum(ranks) == RanksDowngrade(RanksTotal(ranks), RanksAces(ranks))

\* Hand.__init__: an empty hand; the client's list of ranks is empty too
HandInit ==
    /\ rnd = Round_init
    /\ calls = 0
    /\ SessionIdle
    /\ CodecIdle
    /\ ConnIdle
    /\ NetIdle

\* Hand.add_card with a card of any rank (the suits differ, so the cards
\* do); the client appends the rank it is sent
HsAddCard ==
    /\ Len(rnd.player_hand) < MaxHandLen
    /\ \E rk \in 1..13 :
         /\ rnd' = [rnd EXCEPT !.player_hand =
                        Append(@, Card(rk, Len(rnd.player_hand) % 4))]
         /\ player_ranks' = Append(player_ranks, rk)
    /\ call' = "Hand.add_card"
    /\ ret' = Returned(NoValue, FALSE)
    /\ UNCHANGED <<calls, msg, pkt, session, spc, round_index, sent_player,
                   sent_dealer, rounds, s2c, c2s, cpc, r, i, dealer_ranks,
                   wins, played, srvLog, cliLog, connVars, netVars>>

\* Hand.hand_sum: the hand is read only
HsHandSum ==
    /\ calls < MaxCalls
    /\ calls' = calls + 1
    /\ call' = "Hand.hand_sum"
    /\ ret' = Returned(hand_sum(rnd.player_hand), FALSE)
    /\ UNCHANGED <<rnd, msg, pkt, sessionVars, connVars, netVars>>

\* _hand_sum(player_ranks)
HsClientHandSum ==
    /\ calls < MaxCalls
    /\ calls' = calls + 1
    /\ call' = "_hand_sum"
    /\ ret' = Returned(client_hand_sum(player_ranks), FALSE)
    /\ UNCHANGED <<rnd, msg, pkt, sessionVars, connVars, netVars>>

HandNext ==
    \/ HsAddCard
    \/ HsHandSum
    \/ HsClientHandSum

HandSpec == HandInit /\ [][HandNext]_vars

(***************************************************************************)
(* GameSessionSpec: a GameSession constructed for a number of rounds a     *)
(* Request can carry, whose start_next_round and record_outcome are        *)
(* called in any order (current_round is the variable rnd).                *)
(***************************************************************************)
\* GameSession.start_next_round, random.shuffle having the outcome sh:
\* the session, its current_round and the value returned
start_next_round(gs, current_round, sh) ==
    IF is_over(gs)
    THEN [session |-> gs, current_round |-> current_round,
          ret |-> Returned(NoValue, FALSE)]
    ELSE LET new_round == start(Enter(Round_init), sh)
         IN  [session |-> [gs EXCEPT !.round_counter = @ + 1],
              current_round |-> new_round,
              ret |-> Returned(new_round, FALSE)]

\* GameSession.__init__
GameSessionInit ==
    /\ \E n \in 0..MaxRounds : session = GameSession_init(n)
    /\ rnd = Round_init
    /\ calls = 0
    /\ spc = "done"
    /\ round_index = 0
    /\ sent_player = 0
    /\ sent_dealer = 0
    /\ rounds = 0
    /\ s2c = <<>>
    /\ c2s = <<>>
    /\ cpc = "done"
    /\ r = 0
    /\ i = 0
    /\ player_ranks = <<>>
    /\ dealer_ranks = <<>>
    /\ wins = 0
    /\ played = 0
    /\ srvLog = <<>>
    /\ cliLog = <<>>
    /\ CodecIdle
    /\ ConnIdle
    /\ NetIdle

GsStartNextRound ==
    /\ calls < MaxCalls
    /\ calls' = calls + 1
    /\ call' = "start_next_round"
    /\ \E sh \in Shuffles :
         LET out == start_next_round(session, rnd, sh)
         IN  /\ session' = out.session
             /\ rnd' = out.current_round
             /\ ret' = out.ret
    /\ UNCHANGED <<msg, pkt, spc, round_index, sent_player, sent_dealer,
                   rounds, s2c, c2s, cpc, r, i, player_ranks, dealer_ranks,
                   wins, played, srvLog, cliLog, connVars, netVars>>

GsRecordOutcome ==
    /\ calls < MaxCalls
    /\ calls' = calls + 1
    /\ call' = "record_outcome"
    /\ \E outcome \in Outcomes : session' = record_outcome(session, outcome)
    /\ ret' = Returned(NoValue, FALSE)
    /\ UNCHANGED <<rnd, msg, pkt, spc, round_index, sent_player, sent_dealer,
                   rounds, s2c, c2s, cpc, r, i, player_ranks, dealer_ranks,
                   wins, played, srvLog, cliLog, connVars, netVars>>

GameSessionNext ==
    \/ GsStartNextRound
    \/ GsRecordOutcome

GameSessionSpec == GameSessionInit /\ [][GameSessionNext]_vars

(***************************************************************************)
(* LegacySpec: the older pair Session/server_session.run_server_session    *)
(* and Session/client_session.run_client_session over the same two         *)
(* streams.  A server step runs from one blocking receive to the next.     *)
(* The client's cpc "recvHit" and "recvStand" are its recv_exact of line   *)
(* 58 with the local decision "Hittt" and "Stand".                         *)
(***************************************************************************)
\* card_to_rank_suit and send_server_payload(conn, result=0, rank, suit)
legacy_card_payload(card) ==
    [result |-> 0, rank |-> Rank(card), suit |-> Suit(card)]

\* outcome_to_result_byte; -1 stands for the ValueError of line 56
outcome_to_result_byte(outcome) ==
    IF outcome \in {"WIN", "BLACKJACK"} THEN 3
    ELSE IF outcome = "LOSS" THEN 2
    ELSE IF outcome = "TIE" THEN 1
    ELSE -1

\* send_server_payload(conn, result=res, rank=DUMMY_RANK, suit=DUMMY_SUIT)
legacy_result_payload(outcome) ==
    [result |-> outcome_to_result_byte(outcome), rank |-> 1, suit |-> 0]

\* the cards of hand after the first sent ones, as payloads with result 0
LegacyNewCards(hand, sent) ==
    [k \in 1..(Len(hand) - sent) |-> legacy_card_payload(hand[sent + k])]

\* Session/server_session.py, lines 116-170: the payloads answering one
\* Decision on the Round rd, and where the server goes next
LegacyAnswer(rd, sentPlayer, sentDealer, decision) ==
    LET applied == apply_player_decision(
                       Enter(rd), IF decision = DECISION_HIT THEN "HIT" ELSE "STAND")
        drawn == LegacyNewCards(applied.player_hand, sentPlayer)
    IN  IF applied.state = "ROUND_OVER"
        THEN [rd |-> applied, next |-> "roundTop",
              pays |-> drawn \o <<legacy_result_payload(applied.outcome)>>]
        ELSE IF applied.state = "PLAYER_TURN"
        THEN [rd |-> applied, next |-> "recvDecision", pays |-> drawn]
        ELSE [rd |-> applied, next |-> "roundTop",
              pays |-> drawn \o LegacyNewCards(applied.dealer_hand, sentDealer)
                          \o <<legacy_result_payload(applied.outcome)>>]

LegacyInit ==
    /\ rounds \in 1..MaxRounds
    /\ session = GameSession_init(0)
    /\ rnd = Round_init
    /\ spc = "roundTop"
    /\ round_index = 0
    /\ sent_player = 0
    /\ sent_dealer = 0
    /\ s2c = <<>>
    /\ c2s = <<>>
    /\ cpc = "roundTop"
    /\ r = 0
    /\ i = 0
    /\ player_ranks = <<>>
    /\ dealer_ranks = <<>>
    /\ wins = 0
    /\ played = 0
    /\ srvLog = <<>>
    /\ cliLog = <<>>
    /\ calls = 0
    /\ CodecIdle
    /\ ConnIdle
    /\ NetIdle

\* server, lines 78-108: a new Round is started, the player's two cards and
\* the dealer's up-card are sent, and the server waits for a Decision (the
\* state is PLAYER_TURN after every start())
LgSrvRoundStart ==
    /\ spc = "roundTop"
    /\ round_index < rounds
    /\ \E sh \in Shuffles :
         LET started == start(Enter(Round_init), sh)
             pays == <<legacy_card_payload(started.player_hand[1]),
                       legacy_card_payload(started.player_hand[2]),
                       legacy_card_payload(started.dealer_hand[1])>>
         IN  /\ rnd' = started
             /\ s2c' = s2c \o Wire(pays, round_index + 1)
             /\ spc' = IF started.state = "PLAYER_TURN"
                       THEN "recvDecision" ELSE "roundTop"
    /\ round_index' = round_index + 1
    /\ sent_player' = 2
    /\ sent_dealer' = 1
    /\ UNCHANGED <<session, rounds, c2s, cpc, r, i, player_ranks, dealer_ranks,
                   wins, played, srvLog, cliLog, calls, codecVars, connVars,
                   netVars>>

\* server, lines 78 and 172: the for loop is exhausted
LgSrvFinish ==
    /\ spc = "roundTop"
    /\ round_index >= rounds
    /\ spc' = "done"
    /\ UNCHANGED <<rnd, session, round_index, sent_player, sent_dealer, rounds,
                   s2c, c2s, cpc, r, i, player_ranks, dealer_ranks, wins,
                   played, srvLog, cliLog, calls, codecVars, connVars, netVars>>

\* server, lines 111-170: one Decision read and answered
LgSrvDecision ==
    /\ spc = "recvDecision"
    /\ c2s # <<>>
    /\ c2s' = Tail(c2s)
    /\ LET out == LegacyAnswer(rnd, sent_player, sent_dealer, Head(c2s).decision)
       IN  /\ rnd' = out.rd
           /\ s2c' = s2c \o Wire(out.pays, round_index)
           /\ spc' = out.next
           /\ sent_player' = Len(out.rd.player_hand)
           /\ sent_dealer' = IF out.rd.state \in {"ROUND_OVER", "PLAYER_TURN"}
                             THEN sent_dealer ELSE Len(out.rd.dealer_hand)
    /\ UNCHANGED <<session, round_index, rounds, cpc, r, i, player_ranks,
                   dealer_ranks, wins, played, srvLog, cliLog, calls, codecVars,
                   connVars, netVars>>

\* client, lines 43-44 and 100-102: next iteration of the for loop, or return
LgCliRoundStart ==
    /\ cpc = "roundTop"
    /\ IF r < rounds
       THEN r' = r + 1 /\ i' = 0 /\ cpc' = "recvInit"
       ELSE cpc' = "done" /\ UNCHANGED <<r, i>>
    /\ UNCHANGED <<rnd, session, spc, round_index, sent_player, sent_dealer,
                   rounds, s2c, c2s, player_ranks, dealer_ranks, wins, played,
                   srvLog, cliLog, calls, codecVars, connVars, netVars>>

\* client, lines 47-50: one of the three initial receives
LgCliRecvInitial ==
    /\ cpc = "recvInit"
    /\ s2c # <<>>
    /\ s2c' = Tail(s2c)
    /\ i' = i + 1
    /\ cpc' = IF i + 1 < 3 THEN "recvInit" ELSE "prompt"
    /\ UNCHANGED <<rnd, session, spc, round_index, sent_player, sent_dealer,
                   rounds, c2s, r, player_ranks, dealer_ranks, wins, played,
                   srvLog, cliLog, calls, codecVars, connVars, netVars>>

\* client, lines 54-56: prompt_decision returns "Hittt" or "Stand", which is
\* sent; round is a history tag
LgCliPrompt ==
    /\ cpc = "prompt"
    /\ \E decision \in {DECISION_HIT, DECISION_STAND} :
         /\ c2s' = c2s \o SendDecision(decision, r)
         /\ cpc' = IF decision = DECISION_HIT THEN "recvHit" ELSE "recvStand"
    /\ UNCHANGED <<rnd, session, spc, round_index, sent_player, sent_dealer,
                   rounds, s2c, r, i, player_ranks, dealer_ranks, wins, played,
                   srvLog, cliLog, calls, codecVars, connVars, netVars>>

\* client, lines 72-77 and 92-97: wins, and the total of line 100
LegacyTally(result) ==
    /\ wins' = IF result = 3 THEN wins + 1 ELSE wins
    /\ played' = IF result \in {1, 2, 3} THEN played + 1 ELSE played

\* client, lines 58-78: the payload received after a Decision was sent
LgCliRecvAnswer ==
    /\ cpc \in {"recvHit", "recvStand"}
    /\ s2c # <<>>
    /\ s2c' = Tail(s2c)
    /\ LET result == Head(s2c).pay.result
       IN  IF result = 0
           THEN /\ cpc' = IF cpc = "recvStand" THEN "recvDealer" ELSE "prompt"
                /\ UNCHANGED <<wins, played>>
           ELSE /\ cpc' = "roundTop"
                /\ LegacyTally(result)
    /\ UNCHANGED <<rnd, session, spc, round_index, sent_player, sent_dealer,
                   rounds, c2s, r, i, player_ranks, dealer_ranks, srvLog,
                   cliLog, calls, codecVars, connVars, netVars>>

\* client, lines 81-98: payloads read after a STAND until a result
LgCliRecvDealer ==
    /\ cpc = "recvDealer"
    /\ s2c # <<>>
    /\ s2c' = Tail(s2c)
    /\ LET result == Head(s2c).pay.result
       IN  IF result = 0
           THEN UNCHANGED <<cpc, wins, played>>
           ELSE cpc' = "roundTop" /\ LegacyTally(result)
    /\ UNCHANGED <<rnd, session, spc, round_index, sent_player, sent_dealer,
                   rounds, c2s, r, i, player_ranks, dealer_ranks, srvLog,
                   cliLog, calls, codecVars, connVars, netVars>>

LegacyNext ==
    \/ LgSrvRoundStart
    \/ LgSrvFinish
    \/ LgSrvDecision
    \/ LgCliRoundStart
    \/ LgCliRecvInitial
    \/ LgCliPrompt
    \/ LgCliRecvAnswer
    \/ LgCliRecvDealer

LegacySpec == LegacyInit /\ [][LegacyNext]_vars

(***************************************************************************)
(* Properties                                                              *)
(***************************************************************************)
\* wire suit order 0=heart 1=diamond 2=club 3=spade, engine suit order
\* 0=spade 1=heart 2=diamond 3=club: the engine card a payload shows
ShownCard(ev) ==
    Card(ev.rank, CASE ev.suit = 0 -> 1 [] ev.suit = 1 -> 2
                    [] ev.suit = 2 -> 3 [] ev.suit = 3 -> 0)

\* the result code of a final outcome
ExpectedCode(outcome) ==
    CASE outcome \in {"WIN", "BLACKJACK"} -> 3
      [] outcome = "LOSS" -> 2
      [] outcome = "TIE" -> 1
      [] OTHER -> 0

IsPayload(ev) == ev.kind = "payload"

IsDecision(ev, d) == ev.kind = "decision" /\ ev.decision = d

\* number of HIT decisions among the first k entries of log
RECURSIVE HitsUpTo(_, _)
HitsUpTo(log, k) ==
    IF k = 0 THEN 0
    ELSE (IF IsDecision(log[k], DECISION_HIT) THEN 1 ELSE 0) + HitsUpTo(log, k - 1)

\* the decisions of a log, in order
Decisions(log) ==
    LET picked == SelectSeq(log, LAMBDA ev : ev.kind = "decision")
    IN  [k \in 1..Len(picked) |-> picked[k].decision]

RanksOf(hand) == [k \in 1..Len(hand) |-> Rank(hand[k])]

IsPrefix(a, b) == Len(a) <= Len(b) /\ SubSeq(b, 1, Len(a)) = a

\* the server has started a round (rnd and srvLog are those of round round_index)
InRound == round_index >= 1

\* sum of the two cards dealt to the player at round start
TwoCardSum == hand_sum(SubSeq(rnd.player_hand, 1, 2))

\* C1: in every round the first three payloads the server sends are the
\* player's first card, the dealer's up-card and the player's second card, in
\* this order; the first two carry NOT_OVER, and so does the third unless the
\* player's two-card sum is 21.
C1_InitialThreeInOrder ==
    InRound =>
        /\ Len(srvLog) >= 3
        /\ \A k \in 1..3 : IsPayload(srvLog[k])
        /\ ShownCard(srvLog[1]) = rnd.player_hand[1]
        /\ ShownCard(srvLog[2]) = rnd.dealer_hand[1]
        /\ ShownCard(srvLog[3]) = rnd.player_hand[2]
        /\ srvLog[1].result = 0
        /\ srvLog[2].result = 0
        /\ (TwoCardSum # 21 => srvLog[3].result = 0)

\* C1 witness: a round without blackjack whose three initial payloads are
\* sent and the server waits for the first Decision
C1_Witness ==
    /\ InRound
    /\ TwoCardSum # 21
    /\ Len(srvLog) = 3
    /\ spc = "recvDecision"

\* C2: when the player's two-card sum is 21 at round start, the third
\* payload carries WIN (3), the round has exactly three payloads and no
\* Decision is read in it, and the server is at the top of its round loop
\* (next round, or end of the session), never waiting for a Decision.
C2_BlackjackRound ==
    (InRound /\ TwoCardSum = 21) =>
        /\ Len(srvLog) = 3
        /\ \A k \in 1..3 : IsPayload(srvLog[k])
        /\ srvLog[3].result = 3
        /\ spc \in {"roundTop", "done"}
        /\ Len(rnd.player_hand) = 2
        /\ Len(rnd.dealer_hand) = 2

\* C2 witness: a blackjack in the first of two rounds, the server back at
\* the top of the loop
C2_Witness ==
    /\ round_index = 1
    /\ rounds = 2
    /\ TwoCardSum = 21
    /\ Len(srvLog) = 3
    /\ srvLog[3].result = 3
    /\ spc = "roundTop"

\* C3: every HIT Decision the server reads is followed by exactly one
\* payload, carrying the card just drawn into the player hand, with result
\* LOSS (2) if that card busts the player and NOT_OVER (0) otherwise; after a
\* bust nothing more is sent and no Decision is read in the round.
C3_HitOnePayload ==
    \A k \in 1..Len(srvLog) :
        IsDecision(srvLog[k], DECISION_HIT) =>
            LET n == 2 + HitsUpTo(srvLog, k)
                bust == hand_sum(SubSeq(rnd.player_hand, 1, n)) > 21
            IN  /\ Len(srvLog) >= k + 1
                /\ Len(rnd.player_hand) >= n
                /\ IsPayload(srvLog[k + 1])
                /\ ShownCard(srvLog[k + 1]) = rnd.player_hand[n]
                /\ srvLog[k + 1].result = (IF bust THEN 2 ELSE 0)
                /\ (Len(srvLog) >= k + 2 => ~IsPayload(srvLog[k + 2]))
                /\ (bust => Len(srvLog) = k + 1 /\ spc # "recvDecision")

\* C3 witness: a round with a HIT that did not bust followed by a HIT that did
C3_Witness ==
    \E k \in 1..Len(srvLog) :
        /\ Len(srvLog) = k + 3
        /\ IsDecision(srvLog[k], DECISION_HIT)
        /\ srvLog[k + 1].result = 0
        /\ IsDecision(srvLog[k + 2], DECISION_HIT)
        /\ srvLog[k + 3].result = 2

\* C4: a STAND Decision is followed by one payload per dealer card not yet
\* sent, in hand order: the hidden card dealer_hand[1] first, then the cards
\* drawn in the auto-play; the last carries the outcome code and the earlier
\* ones NOT_OVER; at least one payload follows a STAND.
C4_StandDealerPayloads ==
    \A k \in 1..Len(srvLog) :
        IsDecision(srvLog[k], DECISION_STAND) =>
            LET m == Len(srvLog) - k
            IN  /\ m >= 1
                /\ m = Len(rnd.dealer_hand) - 1
                /\ \A j \in 1..m :
                       /\ IsPayload(srvLog[k + j])
                       /\ ShownCard(srvLog[k + j]) = rnd.dealer_hand[1 + j]
                       /\ srvLog[k + j].result =
                              (IF j = m THEN ExpectedCode(rnd.outcome) ELSE 0)
                /\ rnd.outcome \in {"WIN", "LOSS", "TIE"}

\* C4 witness: a STAND answered by the hidden card and two drawn cards
C4_Witness ==
    \E k \in 1..Len(srvLog) :
        /\ IsDecision(srvLog[k], DECISION_STAND)
        /\ Len(srvLog) = k + 3
        /\ Len(rnd.dealer_hand) = 4
        /\ srvLog[k + 1].result = 0
        /\ srvLog[k + 3].result # 0

\* C5: whenever client and server are in the same round and the client has
\* consumed every payload sent, player_ranks is the rank sequence of the
\* server's player hand and dealer_ranks that of the dealer cards sent
\* (dealer_hand[0 .. sent_dealer-1]); while payloads are still unread each
\* list is a prefix of it, so no payload is attributed to the wrong hand.
C5_ClientMirrorsHands ==
    r = round_index =>
        /\ IsPrefix(player_ranks, RanksOf(rnd.player_hand))
        /\ IsPrefix(dealer_ranks, RanksOf(SubSeq(rnd.dealer_hand, 1, sent_dealer)))
        /\ (s2c = <<>> =>
               /\ player_ranks = RanksOf(rnd.player_hand)
               /\ dealer_ranks = RanksOf(SubSeq(rnd.dealer_hand, 1, sent_dealer)))

\* C5 witness: the client has consumed a whole round with a HIT and a STAND
\* that made the dealer draw
C5_Witness ==
    /\ r = round_index
    /\ r >= 1
    /\ s2c = <<>>
    /\ Len(player_ranks) >= 3
    /\ Len(dealer_ranks) >= 3
    /\ cpc = "roundTop"

\* C6: the client sends exactly one Decision per accepted answer (the
\* Decisions it sent in a round are those the server has read in that round
\* followed by those still in flight), it sends none before the three initial
\* payloads, and in a round it sends none after a payload with a non-zero
\* result, so none at all in a blackjack round.
C6_ClientDecisions ==
    /\ \A k \in 1..Len(cliLog) :
           /\ (cliLog[k].kind = "decision" =>
                   /\ k > 3
                   /\ \A j \in 1..(k - 1) : IsPayload(cliLog[j]) => cliLog[j].result = 0)
           /\ (IsPayload(cliLog[k]) /\ cliLog[k].result # 0 => k = Len(cliLog))
    /\ (r = round_index =>
           Decisions(cliLog) =
               Decisions(srvLog) \o [k \in 1..Len(c2s) |-> c2s[k].decision])
    /\ (r # round_index => c2s = <<>>)
    /\ (r > round_index => Decisions(cliLog) = <<>>)

\* C6 witness: the client has ended a round in which it sent two Decisions
C6_Witness ==
    /\ Len(Decisions(cliLog)) = 2
    /\ cliLog[Len(cliLog)].kind = "payload"
    /\ cliLog[Len(cliLog)].result # 0
    /\ cpc = "roundTop"

\* C7: strict request/response: at most one Decision is unread; while one is
\* unread the server is in the round in which the client sent it, blocked in
\* the receive that reads it, and no payload is unread; two Decisions are
\* never read without a payload sent in between.
C7_RequestResponse ==
    /\ Len(c2s) <= 1
    /\ (c2s # <<>> =>
           /\ c2s[1].round = round_index
           /\ c2s[1].round = r
           /\ spc = "recvDecision"
           /\ s2c = <<>>)
    /\ \A k \in 1..(Len(srvLog) - 1) :
           ~(srvLog[k].kind = "decision" /\ srvLog[k + 1].kind = "decision")

\* C7 witness: a Decision of the second round in flight after a first round
\* in which a Decision was answered
C7_Witness ==
    /\ c2s # <<>>
    /\ round_index = 2
    /\ played = 1
    /\ Len(srvLog) > 3

\* C8: a round the server has completed has exactly one payload with a
\* non-zero result, its last; a round in progress has none yet; on the wire a
\* non-zero payload is followed only by payloads of later rounds and a zero
\* payload only by payloads of its own round; a client blocked in a receive
\* with nothing to read is waiting for a server that will send.
C8_OneTerminatingPayload ==
    /\ (InRound /\ spc \in {"roundTop", "done"} =>
           /\ IsPayload(srvLog[Len(srvLog)])
           /\ srvLog[Len(srvLog)].result # 0)
    /\ \A k \in 1..(Len(srvLog) - 1) : IsPayload(srvLog[k]) => srvLog[k].result = 0
    /\ (spc = "recvDecision" => srvLog[Len(srvLog)].result = 0)
    /\ \A k \in 1..(Len(s2c) - 1) :
           IF s2c[k].pay.result # 0
           THEN s2c[k + 1].round > s2c[k].round
           ELSE s2c[k + 1].round = s2c[k].round
    /\ (s2c # <<>> /\ s2c[Len(s2c)].pay.result = 0 =>
           spc = "recvDecision" /\ s2c[Len(s2c)].round = round_index)
    /\ (cpc \in {"recvInit", "recvHit", "recvStand"} /\ s2c = <<>> =>
           \/ spc = "roundTop" /\ round_index < rounds
           \/ spc = "recvDecision" /\ c2s # <<>>)

\* C8 witness: the terminating payload of the first round is on the wire
\* followed by the payloads of the second round
C8_Witness ==
    /\ Len(s2c) >= 4
    /\ \E k \in 1..(Len(s2c) - 1) :
           /\ s2c[k].pay.result # 0
           /\ s2c[k].round = 1
           /\ s2c[k + 1].round = 2
    /\ Len(srvLog) >= 3

\* C9: right after Round.start(), a player whose first two cards sum to 21
\* has outcome BLACKJACK and state ROUND_OVER, whatever the dealer holds, and
\* such a round is never in state PLAYER_TURN.
C9_BlackjackPrecedence ==
    (rnd.state # "None" /\ TwoCardSum = 21) =>
        /\ rnd.state # "PLAYER_TURN"
        /\ (calls = 0 => rnd.outcome = "BLACKJACK" /\ rnd.state = "ROUND_OVER")

\* C10: no method call made on a Round whose state is ROUND_OVER assigns
\* PLAYER_TURN or DEALER_TURN to state, not even in passing.
C10_NoTransitionLeavesRoundOver ==
    rnd.entry = "ROUND_OVER" =>
        /\ rnd.state = "ROUND_OVER"
        /\ \A k \in 1..Len(rnd.writes) : rnd.writes[k] = "ROUND_OVER"

\* the wire suit the protocol assigns to an engine suit: spade 0 -> 3,
\* heart 1 -> 0, diamond 2 -> 1, club 3 -> 2
WireSuitOf(suit) == (suit + 3) % 4

\* the cards of the server's current round
RoundCards == Range(rnd.player_hand) \cup Range(rnd.dealer_hand)

\* C11: every payload the server sends in a round carries the rank of a card
\* of that round unchanged and, as its suit, that card's engine suit taken
\* through the table spade 0 -> 3, heart 1 -> 0, diamond 2 -> 1, club 3 -> 2;
\* the table is defined on all of 0..3 and is a bijection of 0..3.
C11_WireSuitTable ==
    /\ \A k \in 1..Len(srvLog) :
           IsPayload(srvLog[k]) =>
               \E card \in RoundCards :
                   /\ srvLog[k].rank = Rank(card)
                   /\ srvLog[k].suit = WireSuitOf(Suit(card))
    /\ \A k \in 1..Len(s2c) :
           /\ s2c[k].pay.rank \in 1..13
           /\ s2c[k].pay.suit \in 0..3
    /\ {INTERNAL_TO_PROTO_SUIT(suit) : suit \in 0..3} = 0..3

\* C11 witness: a round in which payloads of all four wire suits were sent
C11_Witness ==
    /\ InRound
    /\ \A w \in 0..3 : \E k \in 1..Len(srvLog) : IsPayload(srvLog[k]) /\ srvLog[k].suit = w

\* the last payload of the server's current round
LastSent == srvLog[Len(srvLog)]

\* C12 as stated: the terminating payload of a completed round carries the
\* code of the Round's final outcome (BLACKJACK or WIN 3, LOSS 2, TIE 1), and
\* a payload with result 0 is sent only while the Round has no outcome.
C12_ZeroOnlyWithoutOutcome ==
    /\ (InRound /\ spc \in {"roundTop", "done"} =>
           /\ rnd.outcome \in Outcomes
           /\ IsPayload(LastSent)
           /\ LastSent.result = ExpectedCode(rnd.outcome))
    /\ \A k \in 1..Len(srvLog) :
           IsPayload(srvLog[k]) /\ srvLog[k].result = 0 => srvLog[k].outcome = "None"

\* C12 amended: the terminating payload of a completed round carries the code
\* of the Round's final outcome (BLACKJACK or WIN 3, LOSS 2, TIE 1); a payload
\* with a non-zero result carries the code of the outcome the Round had when
\* it was sent; a payload with result 0 is sent either while the Round has no
\* outcome or, the outcome being set, before another payload of the same round.
C12_ResultCodeOfOutcome ==
    /\ (InRound /\ spc \in {"roundTop", "done"} =>
           /\ rnd.outcome \in Outcomes
           /\ IsPayload(LastSent)
           /\ LastSent.result = ExpectedCode(rnd.outcome))
    /\ \A k \in 1..Len(srvLog) :
           IsPayload(srvLog[k]) =>
               IF srvLog[k].result = 0
               THEN \/ srvLog[k].outcome = "None"
                    \/ k < Len(srvLog) /\ IsPayload(srvLog[k + 1])
               ELSE /\ srvLog[k].outcome \in Outcomes
                    /\ srvLog[k].result = ExpectedCode(srvLog[k].outcome)
                    /\ srvLog[k].outcome = rnd.outcome

\* C12 witness: a round ended by a STAND whose dealer cards before the last
\* were sent with result 0 while the Round already had its outcome
C12_Witness ==
    /\ InRound
    /\ spc \in {"roundTop", "done"}
    /\ Len(srvLog) >= 6
    /\ IsPayload(srvLog[Len(srvLog) - 1])
    /\ srvLog[Len(srvLog) - 1].result = 0
    /\ srvLog[Len(srvLog) - 1].outcome = rnd.outcome
    /\ LastSent.result = ExpectedCode(rnd.outcome)
    /\ rnd.outcome \in {"WIN", "LOSS", "TIE"}

\* the bytes 0xAB 0xCD 0xDC 0xBA
CookieBytes == <<171, 205, 220, 186>>

\* the ASCII bytes of "Hittt" and of "Stand"
HitBytes == <<72, 105, 116, 116, 116>>

StandBytes == <<83, 116, 97, 110, 100>>

\* length in bytes of the UTF-8 encoding of a name
RECURSIVE Utf8Len(_)
Utf8Len(name) ==
    IF name = <<>> THEN 0
    ELSE (IF Head(name) < 128 THEN 1 ELSE 2) + Utf8Len(Tail(name))

\* a name in the domain of the round trip
ValidName(name) ==
    /\ Utf8Len(name) <= 32
    /\ \A k \in 1..Len(name) : name[k] # 0

\* the latest call raised ProtocolError and returned nothing
Rejected ==
    /\ ret.raised = "ProtocolError"
    /\ ~ret.returned
    /\ ret.value = NoValue

\* C13: for valid field values (port 0..65535, rounds 0..255, names of at
\* most 32 UTF-8 bytes without NUL, decision one of the two literals, result
\* 0..255, rank 1..13, suit 0..3) unpacking the packed bytes returns the
\* original message, for Offer, Request, Decision and ServerPayload.
C13_RoundTrip ==
    /\ (call = "unpack_offer" /\ msg.kind = "offer"
            /\ msg.tcp_port \in 0..65535 /\ ValidName(msg.server_name) =>
           /\ ret.returned
           /\ ret.value = [tcp_port |-> msg.tcp_port, server_name |-> msg.server_name])
    /\ (call = "unpack_request" /\ msg.kind = "request"
            /\ msg.rounds \in 0..255 /\ ValidName(msg.team_name) =>
           /\ ret.returned
           /\ ret.value = [rounds |-> msg.rounds, team_name |-> msg.team_name])
    /\ (call = "unpack_payload_decision" /\ msg.kind = "decision"
            /\ msg.decision \in {"Hittt", "Stand"} =>
           /\ ret.returned
           /\ ret.value = msg.decision)
    /\ (call = "unpack_payload_server" /\ msg.kind = "payload"
            /\ msg.result \in 0..255 /\ msg.rank \in 1..13 /\ msg.suit \in 0..3 =>
           /\ ret.returned
           /\ ret.value = [result |-> msg.result, rank |-> msg.rank, suit |-> msg.suit])

\* C13 witness: an Offer with the largest port and a name of sixteen
\* two-byte characters, packed and unpacked
C13_Witness ==
    /\ call = "unpack_offer"
    /\ msg.kind = "offer"
    /\ msg.tcp_port = 65535
    /\ msg.server_name = [k \in 1..16 |-> 233]
    /\ ret.returned

\* the buffer has not the length len, or not the cookie, or not the type tag
BadFrame(len, tag) ==
    \/ Len(pkt) # len
    \/ SubSeq(pkt, 1, 4) # CookieBytes
    \/ pkt[5] # tag

\* C14: each unpack function raises ProtocolError and returns no message for
\* a buffer of another length than the kind's, with another cookie than
\* 0xABCDDCBA, with another type tag than the kind's, with a rank outside
\* 1..13, with a suit outside 0..3, or with decision bytes that are neither
\* "Hittt" nor "Stand".
C14_Rejection ==
    /\ (call = "unpack_offer" /\ BadFrame(39, 2) => Rejected)
    /\ (call = "unpack_request" /\ BadFrame(38, 3) => Rejected)
    /\ (call = "unpack_payload_decision"
            /\ (BadFrame(10, 4) \/ SubSeq(pkt, 6, 10) \notin {HitBytes, StandBytes})
           => Rejected)
    /\ (call = "unpack_payload_server"
            /\ (\/ BadFrame(9, 4)
                \/ 256 * pkt[7] + pkt[8] \notin 1..13
                \/ pkt[9] \notin 0..3)
           => Rejected)

\* C14 witness: a server payload of the right length, cookie and type tag
\* with rank 0, rejected
C14_Witness ==
    /\ call = "unpack_payload_server"
    /\ ~BadFrame(9, 4)
    /\ 256 * pkt[7] + pkt[8] = 0
    /\ pkt[9] \in 0..3
    /\ Rejected

\* the earliest rule of length, cookie, type tag that the buffer violates
FirstViolation(len, tag) ==
    IF Len(pkt) # len THEN "length"
    ELSE IF SubSeq(pkt, 1, 4) # CookieBytes THEN "cookie"
    ELSE IF pkt[5] # tag THEN "type"
    ELSE ""

\* the rejection of the latest call names the rule fv, the field rules
\* coming last; a length error comes before any field is unpacked
RejectedFor(fv) ==
    /\ (fv # "" => ret.raised = "ProtocolError" /\ ret.why = fv)
    /\ (fv = "length" => ~ret.read)
    /\ (fv = "" /\ ret.raised # "" =>
           ret.why \in {"port", "rounds", "rank", "suit", "ascii", "decision"})

\* C15: each unpack function checks the length, then the cookie, then the
\* type tag, then the field ranges: a buffer is rejected for the earliest
\* rule it violates, and a buffer of the wrong length (a Request of 37 bytes)
\* is rejected for its length before any field is unpacked.
C15_CheckOrder ==
    /\ (call = "unpack_offer" => RejectedFor(FirstViolation(39, 2)))
    /\ (call = "unpack_request" => RejectedFor(FirstViolation(38, 3)))
    /\ (call = "unpack_payload_decision" => RejectedFor(FirstViolation(10, 4)))
    /\ (call = "unpack_payload_server" => RejectedFor(FirstViolation(9, 4)))

\* C15 witness: a buffer of the length of a server payload with a wrong
\* cookie, a wrong type tag and a rank out of range, rejected for its cookie
C15_Witness ==
    /\ call = "unpack_payload_server"
    /\ Len(pkt) = 9
    /\ SubSeq(pkt, 1, 4) # CookieBytes
    /\ pkt[5] # 4
    /\ 256 * pkt[7] + pkt[8] = 14
    /\ ret.why = "cookie"

\* C16: pack_payload_server raises ProtocolError and returns no bytes when
\* rank is outside 1..13, suit outside 0..3 or result outside 0..255, and
\* pack_payload_decision does for any string other than "Hittt" and "Stand".
C16_PackRefuses ==
    /\ (call = "pack_payload_server"
            /\ (msg.rank \notin 1..13 \/ msg.suit \notin 0..3 \/ msg.result \notin 0..255)
           => Rejected /\ pkt = <<>>)
    /\ (call = "pack_payload_decision" /\ msg.decision \notin {"Hittt", "Stand"}
           => Rejected /\ pkt = <<>>)

\* C16 witness: pack_payload_decision called with a five-letter string that
\* is not a decision
C16_Witness ==
    /\ call = "pack_payload_decision"
    /\ msg.decision = "Hello"
    /\ Rejected

\* C17: the bytes returned by pack_offer, pack_request, pack_payload_decision
\* and pack_payload_server are 39, 38, 10 and 9 long, begin with the bytes
\* AB CD DC BA and the type tag 2, 3, 4 and 4, and hold port and rank with
\* the most significant byte first.
C17_Layout ==
    call \in PackCalls /\ ret.returned =>
        /\ pkt = ret.value
        /\ Len(pkt) = (CASE call = "pack_offer" -> 39
                         [] call = "pack_request" -> 38
                         [] call = "pack_payload_decision" -> 10
                         [] call = "pack_payload_server" -> 9)
        /\ SubSeq(pkt, 1, 4) = CookieBytes
        /\ pkt[5] = (CASE call = "pack_offer" -> 2
                       [] call = "pack_request" -> 3
                       [] call = "pack_payload_decision" -> 4
                       [] call = "pack_payload_server" -> 4)
        /\ (call = "pack_offer" => 256 * pkt[6] + pkt[7] = msg.tcp_port)
        /\ (call = "pack_request" => pkt[6] = msg.rounds)
        /\ (call = "pack_payload_server" =>
               /\ pkt[6] = msg.result
               /\ 256 * pkt[7] + pkt[8] = msg.rank
               /\ pkt[9] = msg.suit)

\* C17 witness: an Offer packed with port 2048 = 0x0800
C17_Witness ==
    /\ call = "pack_offer"
    /\ ret.returned
    /\ msg.tcp_port = 2048
    /\ pkt[6] = 8
    /\ pkt[7] = 0

\* the first four bytes are the cookie and the fifth is the type tag
WellFramed(b, tag) == SubSeq(b, 1, 4) = CookieBytes /\ b[5] = tag

\* this step hands PAYLOAD_CLIENT_LEN bytes to unpack_payload_decision
ReadsDecision ==
    /\ spc = "recvDecision"
    /\ Len(rbuf) + Len(inbuf) >= 10
    /\ rbuf' = <<>>
    /\ inbuf' # inbuf

\* the bytes it hands over
DecisionBytes == rbuf \o SubSeq(inbuf, 1, 10 - Len(rbuf))

\* this step hands REQUEST_LEN bytes to unpack_request
ReadsRequest ==
    /\ spc = "recvRequest"
    /\ Len(rbuf) + Len(inbuf) >= 38
    /\ rbuf' = <<>>
    /\ inbuf' # inbuf

RequestBytes == rbuf \o SubSeq(inbuf, 1, 38 - Len(rbuf))

\* C18: when the server, the round being in PLAYER_TURN, reads a Decision
\* with the right cookie and type tag whose five bytes are neither "Hittt"
\* nor "Stand", it treats it as a STAND: the dealer plays, the dealer's cards
\* are sent, the last with the outcome code, and the round is over.
C18_UnknownDecisionIsStand ==
    [][(/\ ReadsDecision
        /\ rnd.state = "PLAYER_TURN"
        /\ WellFramed(DecisionBytes, 4)
        /\ SubSeq(DecisionBytes, 6, 10) \notin {HitBytes, StandBytes}) =>
           /\ rnd'.outcome \in {"WIN", "LOSS", "TIE"}
           /\ rnd'.state = "ROUND_OVER"
           /\ ~rnd'.dealer_hidden
           /\ Len(rnd'.dealer_hand) >= 2
           /\ Len(s2c') = Len(rnd'.dealer_hand) - 1
           /\ \A k \in 1..Len(s2c') :
                  /\ ShownCard(s2c'[k].pay) = rnd'.dealer_hand[1 + k]
                  /\ s2c'[k].pay.result =
                         (IF k = Len(s2c') THEN ExpectedCode(rnd'.outcome) ELSE 0)
           /\ spc' \in {"roundTop", "done"}]_vars

C20_HandshakeFirst ==
    /\ [](spc = "recvRequest" =>
             /\ s2c = <<>>
             /\ round_index = 0
             /\ rnd = Round_init
             /\ Len(rbuf) < 38)
    /\ [](err.at = "recvRequest" =>
             /\ spc = "closed"
             /\ s2c = <<>>
             /\ round_index = 0
             /\ rnd = Round_init)
    /\ [][/\ (spc = "recvRequest" /\ spc' # "recvRequest" =>
                 IF ReadsRequest /\ WellFramed(RequestBytes, 3)
                 THEN /\ spc' = "roundTop"
                      /\ rounds' = RequestBytes[6]
                      /\ Len(inbuf') = Len(inbuf) - (38 - Len(rbuf))
                      /\ s2c' = <<>>
                      /\ round_index' = 0
                 ELSE /\ spc' = "closed"
                      /\ err'.at = "recvRequest"
                      /\ s2c' = <<>>
                      /\ round_index' = 0)
          /\ (s2c' # <<>> \/ round_index' # round_index =>
                 spc \notin {"recvRequest", "closed"})]_vars

\* C20 witness: a Request arrived with a Decision right behind it; the
\* handshake took 38 bytes, the first round has started and its three
\* payloads are sent, the 10 bytes of the Decision are still unread
C20_Witness ==
    /\ spc = "recvDecision"
    /\ round_index = 1
    /\ Len(s2c) = 3
    /\ rbuf = <<>>
    /\ inbuf = CookieBytes \o <<4>> \o HitBytes

\* C21: under fair scheduling, with reliable streams and a player who
\* eventually answers each prompt, both run_server_session and
\* run_client_session return, the server having played exactly `rounds`
\* rounds and recorded an outcome for each, the client having played the
\* same number, nothing left unread in either stream and nobody blocked in
\* a receive.
C21_SessionsTerminate ==
    <>[](/\ spc = "done"
         /\ cpc = "done"
         /\ round_index = rounds
         /\ session.round_counter = rounds
         /\ session.wins + session.losses + session.ties = rounds
         /\ r = rounds
         /\ played = rounds
         /\ s2c = <<>>
         /\ c2s = <<>>)

\* C21 witness: both sides have returned from a session of MaxRounds rounds
\* in which the player lost one round and won another
C21_Witness ==
    /\ spc = "done"
    /\ cpc = "done"
    /\ rounds = MaxRounds
    /\ played = MaxRounds
    /\ session.losses >= 1
    /\ session.wins >= 1

\* the handler c catches an exception in this step
CatchesError(c) ==
    /\ c <= Len(conns')
    /\ conns[c].caught = ""
    /\ conns'[c].caught \in HandlerErrors

\* C22: the step in which one connection's handler catches a transport or
\* protocol error closes that handler's socket and ends that handler, and
\* changes nothing else: the handlers of the other connections keep their
\* GameSession and Round state, no handler appears or disappears, main stays
\* in its accept loop, stop_event stays clear and the beacon's count is
\* untouched; and in every state with a failed handler where main has not
\* been interrupted, main can accept the next client, the beacon can send
\* the next offer and every other handler can take its next step.
C22_ErrorsStayLocal ==
    /\ [][\A c \in 1..Len(conns) :
            CatchesError(c) =>
                /\ conns'[c].sock = "closed"
                /\ conns'[c].hpc = "closed"
                /\ Len(conns') = Len(conns)
                /\ \A d \in 1..Len(conns) : d # c => conns'[d] = conns[d]
                /\ mainpc = "accept"
                /\ mainpc' = "accept"
                /\ stop_event' = FALSE
                /\ offers' = offers]_vars
    /\ []((mainpc = "accept" /\ \E c \in 1..Len(conns) : conns[c].caught # "") =>
             /\ ~stop_event
             /\ Len(conns) < MaxConns => ENABLED MainAccept
             /\ offers < MaxOffers => ENABLED BroadcastOffer
             /\ \A d \in 1..Len(conns) :
                    /\ conns[d].hpc = "recvRequest" => ENABLED ThRequest(d)
                    /\ conns[d].hpc = "session" =>
                           ENABLED (ThRoundStart(d) \/ ThRoundEnd(d) \/ ThReturn(d)))

\* C22 witness: the first connection's handler failed on a protocol error
\* and is closed; the second connection's session is in its second round
\* with one round won; main is accepting and the beacon has sent offers
C22_Witness ==
    /\ Len(conns) = 2
    /\ conns[1].caught = "ProtocolError"
    /\ conns[1].sock = "closed"
    /\ conns[2].hpc = "session"
    /\ conns[2].sock = "open"
    /\ conns[2].round = "PLAYER_TURN"
    /\ conns[2].session.round_counter = 2
    /\ conns[2].session.wins = 1
    /\ mainpc = "accept"
    /\ ~stop_event
    /\ offers = MaxOffers

\* bytes received by the sock.recv calls before the j-th
RECURSIVE GotBefore(_)
GotBefore(j) == IF j <= 1 THEN 0 ELSE GotBefore(j - 1) + asked[j - 1].got

\* C23: however sock.recv cuts the stream into chunks, recv_exact(sock, n)
\* with n >= 0 returns the next n bytes of the stream in order and leaves
\* the bytes after them unread; every sock.recv asks for exactly the bytes
\* still missing and gets no more than that; while bytes are missing the
\* function has not returned; and when recv reports the end of the stream
\* first, ConnectionError is raised and no data returned.
C23_RecvExact ==
    /\ \A j \in 1..Len(asked) :
           /\ asked[j].size = want - GotBefore(j)
           /\ asked[j].size >= 1
           /\ asked[j].got <= asked[j].size
    /\ ret.returned /\ want >= 0 =>
           /\ ret.value = [k \in 1..want |-> k]
           /\ inbuf = [k \in 1..Len(inbuf) |-> want + k]
    /\ ret.raised = "ConnectionError" =>
           /\ ret.value = NoValue
           /\ ~ret.returned
           /\ Len(rbuf) < want
           /\ inbuf = <<>>
           /\ peer = "closed"
           /\ asked[Len(asked)].got = 0
    /\ RecvRunning => Len(rbuf) < want
    /\ want >= 0 => ret.raised \in {"", "ConnectionError"}

\* C23 witness: MaxWant bytes were asked for and came one at a time, with
\* one more byte behind them, which is left unread
C23_Witness ==
    /\ ret.returned
    /\ want = MaxWant
    /\ Len(asked) = MaxWant
    /\ Len(ret.value) = MaxWant
    /\ Len(inbuf) = 1

\* C24: when connect_and_send_request has returned, the socket it created
\* is connected to (server_ip, tcp_port) and open, exactly one packed
\* Request has been sent on it, and the value returned is that socket.
C24_ReturnsOpenSocket ==
    (call = "client_main.main" /\ csock # NoSocket /\ ret.returned) =>
        /\ csock.state = "connected"
        /\ csock.addr = <<ServerIp, unpack_offer(pkt).value.tcp_port>>
        /\ csock.sent = <<pack_request(msg.rounds, msg.team_name).value>>
        /\ ret.value = [socket |-> csock]

\* the datagram passes the checks of an Offer: 39 bytes, cookie, type tag 2
OfferValid(b) == Len(b) = 39 /\ WellFramed(b, 2)

\* the port and the name an Offer datagram carries
OfferPort(b) == 256 * b[6] + b[7]

\* C25: a datagram that fails the validation of unpack_offer raises nothing
\* to the caller, prints no 'Received offer' line and returns no Offer, and
\* the listener goes on listening; every 'Received offer' line and the
\* Offer wait_for_offer returns come from a datagram that passed the
\* validation, whose port they show.
C25_InvalidOffersIgnored ==
    /\ [][calls' = calls + 1 =>
            IF OfferValid(pkt')
            THEN \/ /\ call = "wait_for_offer"
                    /\ ret'.returned
                    /\ ret'.value.offer.tcp_port = OfferPort(pkt')
                    /\ printed' = printed
                 \/ /\ call # "wait_for_offer"
                    /\ Len(printed') = Len(printed) + 1
                    /\ printed'[Len(printed')].tcp_port = OfferPort(pkt')
            ELSE /\ printed' = printed
                 /\ ret' = ret
                 /\ lpc' = "listen"
                 /\ csock' = csock]_vars
    /\ [][printed' # printed \/ (call = "wait_for_offer" /\ ret'.returned /\ ~ret.returned) =>
            calls' = calls + 1 /\ OfferValid(pkt')]_vars

\* C25 witness: client_listener.main reported an offer, then received a
\* datagram with another cookie, printed nothing for it and listens on
C25_Witness ==
    /\ call = "client_listener.main"
    /\ calls = 2
    /\ Len(printed) = 1
    /\ Len(pkt) = 39
    /\ SubSeq(pkt, 1, 4) # CookieBytes
    /\ lpc = "listen"

\* C26: pack_request returns bytes only for a rounds value in 1..255, and
\* unpack_request returns a Request only when the rounds byte is in 1..255.
C26_RoundsAtLeastOne ==
    /\ (call = "pack_request" /\ ret.returned) => msg.rounds \in 1..255
    /\ (call = "unpack_request" /\ ret.returned) =>
            /\ pkt[6] \in 1..255
            /\ ret.value.rounds \in 1..255

\* C27: a call made on a Round whose state is ROUND_OVER applies no
\* decision: it adds no card to the player hand, does not enter
\* DEALER_TURN, and leaves the dealer hand and the deck as they were.
C27_DecisionOutOfTurnHasNoEffect ==
    [][rnd.state = "ROUND_OVER" =>
          /\ rnd'.player_hand = rnd.player_hand
          /\ rnd'.dealer_hand = rnd.dealer_hand
          /\ rnd'.deck = rnd.deck
          /\ \A k \in 1..Len(rnd'.writes) : rnd'.writes[k] # "DEALER_TURN"]_vars

\* this step is apply_player_decision("STAND") on a round in PLAYER_TURN:
\* no other call assigns DEALER_TURN
StandStep ==
    /\ calls' = calls + 1
    /\ rnd.state = "PLAYER_TURN"
    /\ rnd'.writes # <<>>
    /\ rnd'.writes[1] = "DEALER_TURN"

\* this step is apply_player_decision("HIT") on a round in PLAYER_TURN:
\* no other call lengthens the player hand of a started round
HitStep ==
    /\ calls' = calls + 1
    /\ rnd.state = "PLAYER_TURN"
    /\ Len(rnd'.player_hand) > Len(rnd.player_hand)

\* the last m cards of pile, the last one first: the order they are drawn in
DrawnFrom(pile, m) == [k \in 1..m |-> pile[Len(pile) + 1 - k]]

\* C28: in the dealer turn a STAND in PLAYER_TURN starts, the dealer hand
\* grows by cards drawn from the top of the deck, the sum before each drawn
\* card was below 17, the final sum is at least 17, and a dealer who has 17
\* or more already draws nothing.
C28_DealerDrawsBelow17 ==
    [][StandStep =>
          LET before == rnd.dealer_hand
              after == rnd'.dealer_hand
              m == Len(after) - Len(before)
          IN  /\ m >= 0
              /\ after = before \o DrawnFrom(rnd.deck, m)
              /\ rnd'.deck = SubSeq(rnd.deck, 1, Len(rnd.deck) - m)
              /\ \A k \in Len(before)..(Len(after) - 1) :
                     hand_sum(SubSeq(after, 1, k)) < 17
              /\ hand_sum(after) >= 17
              /\ hand_sum(before) >= 17 => m = 0]_vars

\* C28 witness: a STAND in PLAYER_TURN after which the dealer, who held two
\* cards, holds four or more
C28_Witness ==
    /\ rnd.entry = "PLAYER_TURN"
    /\ rnd.writes = <<"DEALER_TURN", "ROUND_OVER">>
    /\ Len(rnd.dealer_hand) >= 4
    /\ hand_sum(rnd.dealer_hand) >= 17

C30_HitOutcome ==
    [][HitStep =>
          /\ rnd'.player_hand = Append(rnd.player_hand, rnd.deck[Len(rnd.deck)])
          /\ rnd'.deck = SubSeq(rnd.deck, 1, Len(rnd.deck) - 1)
          /\ rnd'.dealer_hand = rnd.dealer_hand
          /\ IF hand_sum(rnd'.player_hand) > 21
             THEN rnd'.outcome = "LOSS" /\ rnd'.state = "ROUND_OVER"
             ELSE rnd'.outcome = "None" /\ rnd'.state = "PLAYER_TURN"]_vars

\* the total of a hand with every Ace counted as 1 and every face as 10
RECURSIVE HardTotal(_)
HardTotal(hand) ==
    IF hand = <<>> THEN 0
    ELSE (IF Rank(Head(hand)) > 10 THEN 10 ELSE Rank(Head(hand)))
             + HardTotal(Tail(hand))

\* the totals obtainable by counting each Ace as 1 or as 11
AceTotals(hand) ==
    {HardTotal(hand) + 10 * k :
        k \in 0..Cardinality({j \in DOMAIN hand : Rank(hand[j]) = 1})}

\* the largest obtainable total not above 21, or the all-Aces-as-1 total
BestTotal(hand) ==
    LET fit == {t \in AceTotals(hand) : t <= 21}
    IN  IF fit = {} THEN HardTotal(hand)
        ELSE CHOOSE t \in fit : \A u \in fit : u <= t

\* the orderings of a hand
Orderings(hand) ==
    {[k \in DOMAIN hand |-> hand[p[k]]] : p \in Permutations(DOMAIN hand)}

\* C31: hand_sum of a hand is the largest total not above 21 obtainable by
\* counting each Ace as 1 or 11 (else the total with every Ace as 1); a
\* call of Hand.hand_sum returns that value, which is hand_sum of every
\* ordering of the hand, leaves the hand as it was, and a call repeated on
\* the same hand returns the same value.
C31_HandSumPure ==
    /\ [](/\ hand_sum(rnd.player_hand) = BestTotal(rnd.player_hand)
          /\ call = "Hand.hand_sum" =>
                 /\ ret.returned
                 /\ ret.value = BestTotal(rnd.player_hand)
                 /\ \A o \in Orderings(rnd.player_hand) : hand_sum(o) = ret.value)
    /\ [][call' = "Hand.hand_sum" =>
             /\ rnd' = rnd
             /\ call = "Hand.hand_sum" => ret' = ret]_vars

\* C31 witness: Hand.hand_sum called more than once on Ace, King, Ace
\* returned 12, both Aces counted as 1
C31_Witness ==
    /\ call = "Hand.hand_sum"
    /\ calls >= 2
    /\ RanksOf(rnd.player_hand) = <<1, 13, 1>>
    /\ ret.value = 12

\* C32: the client's list of ranks being that of the cards of the engine's
\* hand, _hand_sum of the list equals Hand.hand_sum of the hand, so both
\* sides see the same sum and the same bust.
C32_ClientSumIsEngineSum ==
    /\ player_ranks = RanksOf(rnd.player_hand)
    /\ client_hand_sum(player_ranks) = hand_sum(rnd.player_hand)
    /\ call = "_hand_sum" =>
           /\ ret.returned
           /\ ret.value = hand_sum(rnd.player_hand)
           /\ (ret.value > 21) = is_bust(rnd.player_hand)

\* C32 witness: _hand_sum returned 13 for Ace, Ace, Ace, the same as the
\* engine's sum of three Aces
C32_Witness ==
    /\ call = "_hand_sum"
    /\ player_ranks = <<1, 1, 1>>
    /\ ret.value = 13
    /\ hand_sum(rnd.player_hand) = 13

\* this step is Round.start: the state of the Round was never assigned
StartStep == rnd.state = "None" /\ rnd'.state # "None"

\* C33: Round.start, random.shuffle leaving the deck in the order d, leaves
\* the deck d without its top four cards (48 cards), the player holding the
\* 1st and 3rd card drawn from the top of d and the dealer the 2nd and 4th;
\* d is an ordering of the 52 cards of the new deck.
C33_StartDealsAlternately ==
    [][StartStep =>
          \E sh \in Shuffles :
              LET d == shuffle(rnd.deck, sh)
              IN  /\ rnd' = start(Enter(rnd), sh)
                  /\ Len(d) = 52
                  /\ Range(d) = Range(rnd.deck)
                  /\ rnd'.player_hand = <<d[52], d[50]>>
                  /\ rnd'.dealer_hand = <<d[51], d[49]>>
                  /\ rnd'.deck = SubSeq(d, 1, 48)
                  /\ Len(rnd'.deck) = 48]_vars

\* C33 witness: start() dealt A♠ and 6♦ to the player, 5♥ and K♥ to the
\* dealer, from a shuffle that put A♠ 5♥ 6♦ K♥ on top in that order
C33_Witness ==
    /\ rnd.entry = "None"
    /\ rnd.writes # <<>>
    /\ rnd.player_hand = <<Card(1, 0), Card(6, 2)>>
    /\ rnd.dealer_hand = <<Card(5, 1), Card(13, 1)>>
    /\ Len(rnd.deck) = 48

\* the cards of a Round, wherever they are
AllCards(rd) == rd.deck \o rd.player_hand \o rd.dealer_hand

\* C34: the deck and the two hands together hold each of the 52 cards
\* exactly once; no step lengthens the deck or puts a card on it that was
\* not there.
C34_CardsConserved ==
    /\ [](/\ Len(AllCards(rnd)) = 52
          /\ Range(AllCards(rnd)) = 0..51
          /\ \A c \in 0..51 : Rank(c) \in 1..13 /\ Suit(c) \in 0..3
                                 /\ Card(Rank(c), Suit(c)) = c)
    /\ [][/\ Len(rnd'.deck) <= Len(rnd.deck)
          /\ Range(rnd'.deck) \subseteq Range(rnd.deck)]_vars

\* C34 witness: a round in which the player and the dealer both drew after
\* the deal
C34_Witness ==
    /\ Len(rnd.player_hand) >= 3
    /\ Len(rnd.dealer_hand) >= 3
    /\ Len(rnd.deck) <= 46

\* C35: in a session, every card after the deal was drawn for the player
\* while the player hand was not bust and for the dealer while the dealer
\* sum was below 17, so that the hands stay small and the deck, which holds
\* the 52 cards less the two hands, is far from empty at every draw.
C35_DeckNeverExhausted ==
    LET p == rnd.player_hand
        d == rnd.dealer_hand
    IN  /\ Len(rnd.deck) = 52 - Len(p) - Len(d)
        /\ Len(rnd.deck) >= 28
        /\ \A n \in 2..(Len(p) - 1) : hand_sum(SubSeq(p, 1, n)) <= 21
        /\ \A n \in 2..(Len(d) - 1) : hand_sum(SubSeq(d, 1, n)) < 17

\* C35 witness: a session round in which the player drew and stood and the
\* dealer drew, the server having answered the STAND
C35_Witness ==
    /\ round_index >= 1
    /\ spc # "recvDecision"
    /\ Len(rnd.player_hand) >= 3
    /\ Len(rnd.dealer_hand) >= 3
    /\ Len(rnd.deck) = 52 - Len(rnd.player_hand) - Len(rnd.dealer_hand)
    /\ rnd.state = "ROUND_OVER"

\* this step is a call of GameSession.start_next_round
StartNextRoundStep == calls' = calls + 1 /\ call' = "start_next_round"

\* C36: round_counter never exceeds num_rounds; start_next_round called
\* with round_counter = num_rounds returns None and leaves round_counter,
\* current_round and the three counters as they were, and called earlier
\* it counts one round and returns the Round it started.
C36_RoundCounterBounded ==
    /\ [](session.round_counter <= session.num_rounds)
    /\ [][StartNextRoundStep =>
             IF session.round_counter = session.num_rounds
             THEN /\ ret'.returned
                  /\ ret'.value = NoValue
                  /\ rnd' = rnd
                  /\ session' = session
             ELSE /\ session'.round_counter = session.round_counter + 1
                  /\ ret'.value = rnd'
                  /\ rnd'.state = "PLAYER_TURN"]_vars

\* C36 witness: start_next_round returned None in a session of two rounds
\* that has started both, the second Round still being the current one
C36_Witness ==
    /\ call = "start_next_round"
    /\ ret.value = NoValue
    /\ session.num_rounds = 2
    /\ session.round_counter = 2
    /\ rnd.state = "PLAYER_TURN"
    /\ calls = 3

\* no STAND Decision was read before entry k of the round's log
BeforeStand(k) ==
    \A j \in 1..(k - 1) : ~IsDecision(srvLog[j], DECISION_STAND)

\* C37: every payload the server sends in a round before it has read a
\* STAND Decision shows a card of the player hand or dealer_hand[0], never
\* the dealer's second initial card; a bust sends no dealer card either.
C37_HoleCardHidden ==
    InRound =>
        \A k \in 1..Len(srvLog) :
            (IsPayload(srvLog[k]) /\ BeforeStand(k)) =>
                /\ ShownCard(srvLog[k]) # rnd.dealer_hand[2]
                /\ \/ ShownCard(srvLog[k]) = rnd.dealer_hand[1]
                   \/ \E n \in 1..Len(rnd.player_hand) :
                          ShownCard(srvLog[k]) = rnd.player_hand[n]

\* C37 witness: a round with a HIT that did not bust and then a STAND, only
\* after which the dealer's second card was sent
C37_Witness ==
    /\ InRound
    /\ \E k \in 6..Len(srvLog) :
          /\ IsDecision(srvLog[4], DECISION_HIT)
          /\ IsDecision(srvLog[k], DECISION_STAND)
          /\ Len(srvLog) > k
          /\ ShownCard(srvLog[k + 1]) = rnd.dealer_hand[2]

\* the Round is one a decision may be applied to
AwaitsDecision(rd) ==
    /\ rd.state = "PLAYER_TURN"
    /\ rd.outcome = "None"
    /\ hand_sum(rd.player_hand) <= 21
    /\ hand_sum(SubSeq(rd.player_hand, 1, 2)) # 21

\* this step of the session calls apply_player_decision on its Round: the
\* Round of the current round changes
AppliesDecision == round_index' = round_index /\ rnd' # rnd

\* C38: the server waits for a Decision, and applies one, only on a Round
\* in PLAYER_TURN whose outcome is unset and whose player hand is not bust,
\* so never on a round that began with a blackjack or has ended.
C38_DecisionOnlyInPlayerTurn ==
    /\ [](spc = "recvDecision" => AwaitsDecision(rnd))
    /\ [][AppliesDecision => spc = "recvDecision" /\ AwaitsDecision(rnd)]_vars

\* C38 witness: in the second round a HIT was applied that did not bust,
\* and the server waits for the next Decision
C38_Witness ==
    /\ round_index = 2
    /\ spc = "recvDecision"
    /\ Decisions(srvLog) = <<DECISION_HIT>>
    /\ Len(rnd.player_hand) = 3
    /\ rnd.entry = "PLAYER_TURN"

\* the rounds recorded in the GameSession
Recorded == session.wins + session.losses + session.ties

\* C39: each round the server has completed is recorded once (back at the
\* top of its loop the three counters add up to the rounds started), the
\* client has tallied each round it has completed, and when both have
\* completed the same rounds, as at the end of the session, the client's
\* played is the number recorded and its wins is GameSession.wins.
C39_TalliesAgree ==
    /\ (spc \in {"roundTop", "done"} => Recorded = round_index)
    /\ (spc = "recvDecision" => Recorded = round_index - 1)
    /\ (cpc \in {"roundTop", "done"} => played = r)
    /\ (spc \in {"roundTop", "done"} /\ cpc \in {"roundTop", "done"}
           /\ r = round_index) =>
              /\ played = Recorded
              /\ wins = session.wins
    /\ (spc = "done" /\ cpc = "done") =>
           /\ Recorded = rounds
           /\ session.round_counter = rounds
           /\ played = rounds
           /\ wins = session.wins

\* C39 witness: a finished session of two rounds, one won by a blackjack
\* and one not won
C39_Witness ==
    /\ spc = "done"
    /\ cpc = "done"
    /\ rounds = 2
    /\ session.wins = 1
    /\ session.losses + session.ties = 1
    /\ wins = 1
    /\ played = 2
    /\ \E k \in 1..Len(srvLog) : srvLog[k].outcome = "BLACKJACK"

\* C40: in a session of the legacy pair every Decision the server reads was
\* sent by the client in the round the server is in, and when both sides
\* have returned no Decision is left unread.
C40_LegacyInSync ==
    /\ [][(c2s # <<>> /\ c2s' = Tail(c2s) /\ spc = "recvDecision"
              /\ Len(c2s') < Len(c2s)) =>
             Head(c2s).round = round_index]_vars
    /\ []((spc = "done" /\ cpc = "done") => c2s = <<>>)

====
